---- MODULE Spec2Model ----
(***************************************************************************)
(* Verification model of bevy_proc_aud: the ParamHandle parameter bridge   *)
(* (dsp/param.rs), the render/decode bridge (dsp/source.rs), the generic   *)
(* graph builder (dsp/graph_builder.rs) and the sync systems               *)
(* (systems/sync.rs).                                                      *)
(*                                                                         *)
(* f32 values are modelled as integers (NaN is outside the model).         *)
(***************************************************************************)
EXTENDS Integers, Sequences, FiniteSets, TLC

(***************************************************************************)
(* Bounds of the model.                                                    *)
(***************************************************************************)
\* values handed to new/set range over 0..ValMax
ValMax == 2
\* ParamHandle objects (originals and clones) alive in SpecParam
MaxHandles == 2
\* Shared cells allocated in SpecParam
MaxCells == 1
\* component mutations the host makes in SpecBuild
MaxMutations == 1
\* frames per block (fundsp::MAX_BUFFER_SIZE is 64; the decoder is parametric in it)
MAX_BUFFER_SIZE == 2
\* decoder() calls (one per caller) in SpecRender
MaxDecoders == 2
\* process calls made by all decoders together in SpecRender
MaxRenders == 2

\* Option<T>: None is <<>>, Some(x) is <<x>>
None == <<>>
Some(x) == <<x>>

VARIABLES
    \* ---- parameter bridge (dsp/param.rs) ----
    cells,      \* heap of fundsp Shared cells: cell id -> stored value
    handles,    \* the ParamHandle objects alive: [inner, min, max]
    root,       \* history: root[i] = the handle created by new() that handle i descends from by clone()
    lastSet,    \* history: per root handle, the last set made through it or a clone: Some([raw, via]) or None
    ret,        \* the last get(): Some([via, value]), or None
    panicked,   \* 0, or the handle whose set panicked (f32::clamp asserts min <= max)
    \* ---- one Synth entity and the systems that serve it (systems/build.rs, systems/sync.rs) ----
    comp,       \* the entity's components: osc, freq, amp, lp, hp, bp, reverb, delay, dist (each an Option)
    changed,    \* the components Changed<_> since param_sync_system last ran
    synth,      \* None, or Some([params, graph]): SynthParams and the graph of the inserted asset
    muts,       \* number of component mutations the host has made
    syncs,      \* history: number of param_sync_system runs that stored into a cell
    buildLog,   \* history: None, or Some([comp, cells]): what build_synth_graph was given and the heap it returned
    \* ---- render/decode bridge (dsp/source.rs) ----
    graphs,     \* heap of Box<dyn AudioUnit> instances: graph id -> [unit, sr, allocated, t, mem]
    asset,      \* None, or Some(ProceduralAudio): [graph, sample_rate, channels]
    mutex,      \* the asset's Mutex: 0 when free, else the decoder() call holding the guard
    calls,      \* per caller, its decoder() call: [pc, cloned], with history acq: the times it took the mutex
    dec,        \* per caller, None or Some(ProceduralAudioDecoder): [graph, sample_rate, channels, buffer, pos, total, pc]
    pulled,     \* history: per decoder, number of samples next() has returned
    last,       \* history: per decoder, None or Some(the sample the last next() returned)
    rendered,   \* history: per decoder, the blocks its process calls produced, in order
    fillLog,    \* history: per decoder inside fill_block, the cells and the sync count when the fill began
    renders,    \* number of process calls made by all decoders
    \* ---- preset entities (presets/*.rs, systems/build.rs, systems/lifecycle.rs) ----
    ents,       \* the preset entities: sequence of [preset, player, life, alive]
    tick,       \* number of Update ticks in which oneshot_lifetime_system has run
    delta,    \* Time::delta_secs() of the last tick of oneshot_lifetime_system
    inst,       \* None, or Some(the playing instance of entity 1's graph): [unit, rate, frame, mem]
    out,        \* None, or Some(what the instance's last tick produced)
    heard,      \* history: whether the instance has produced a non-zero sample
    heart       \* None, or the heartbeat entity's handles, change flag and lfo evaluation

paramVars == <<handles, root, lastSet, ret, panicked>>
ecsVars == <<comp, changed, synth, muts, syncs, buildLog>>
assetVars == <<graphs, asset>>
renderVars == <<mutex, calls, dec, pulled, last, rendered, fillLog, renders>>
shotVars == <<ents, tick, delta, inst, out, heard, heart>>

vars == <<cells, paramVars, ecsVars, assetVars, renderVars, shotVars>>

(***************************************************************************)
(* dsp/param.rs                                                            *)
(***************************************************************************)
Vals == 0..ValMax

\* a clamp that forgets the upper bound
ClampNoUpper(v, lo, hi) == IF v < lo THEN lo ELSE v

\* f32::clamp(self, min, max): if x < min {x = min}; if x > max {x = max}; x
Clamp(v, lo, hi) ==
    LET x == IF v < lo THEN lo ELSE v
    IN  IF x > hi THEN hi ELSE x

\* f32::clamp panics unless min <= max
ClampPanics(lo, hi) == ~(lo <= hi)

\* Shared::new(initial): a fresh cell holding the value as given
SharedNew(cs, initial) == Append(cs, initial)

\* ParamHandle::new(name, initial, min, max): the handle around cell `inner`
ParamHandleNew(inner, lo, hi) == [inner |-> inner, min |-> lo, max |-> hi]

\* a clone that copies the cell instead of sharing it
CloneCellDeep(cs, h) == Len(cs) + 1

\* #[derive(Clone)] on ParamHandle: Shared is an Arc, so the clone names the same cell
CloneCell(cs, h) == h.inner

\* ParamHandle::set: clamp, then one atomic store into the shared cell
ParamSet(cs, h, v) == [cs EXCEPT ![h.inner] = Clamp(v, h.min, h.max)]

\* ParamHandle::get: one atomic load
ParamGet(cs, h) == cs[h.inner]

\* let h = ParamHandle::new(_, initial, lo, hi)
New(initial, lo, hi) ==
    /\ panicked = 0
    /\ Len(handles) < MaxHandles
    /\ Len(cells) < MaxCells
    /\ cells' = SharedNew(cells, initial)
    /\ handles' = Append(handles, ParamHandleNew(Len(cells) + 1, lo, hi))
    /\ root' = Append(root, Len(handles) + 1)
    /\ lastSet' = Append(lastSet, None)
    /\ UNCHANGED <<ret, panicked, ecsVars, assetVars, renderVars, shotVars>>

\* let h2 = handles[i].clone()
CloneHandle(i) ==
    /\ panicked = 0
    /\ Len(handles) < MaxHandles
    /\ LET c == CloneCell(cells, handles[i])
       IN  /\ cells' = IF c \in DOMAIN cells THEN cells ELSE Append(cells, cells[handles[i].inner])
           /\ handles' = Append(handles, [handles[i] EXCEPT !.inner = c])
    /\ root' = Append(root, root[i])
    /\ lastSet' = Append(lastSet, None)
    /\ UNCHANGED <<ret, panicked, ecsVars, assetVars, renderVars, shotVars>>

\* handles[i].set(v)
Set(i, v) ==
    /\ panicked = 0
    /\ IF ClampPanics(handles[i].min, handles[i].max)
       THEN /\ panicked' = i
            /\ UNCHANGED <<cells, lastSet>>
       ELSE /\ cells' = ParamSet(cells, handles[i], v)
            /\ lastSet' = [lastSet EXCEPT ![root[i]] = Some([raw |-> v, via |-> i])]
            /\ UNCHANGED panicked
    /\ UNCHANGED <<handles, root, ret, ecsVars, assetVars, renderVars, shotVars>>

\* let x = handles[i].get()
Get(i) ==
    /\ panicked = 0
    /\ ret' = Some([via |-> i, value |-> ParamGet(cells, handles[i])])
    /\ UNCHANGED <<cells, handles, root, lastSet, panicked, ecsVars, assetVars, renderVars, shotVars>>

\* no ParamHandle built by hand
ParamIdle ==
    /\ handles = <<>>
    /\ root = <<>>
    /\ lastSet = <<>>
    /\ ret = None
    /\ panicked = 0

\* no Synth entity spawned
EcsIdle ==
    /\ comp = None
    /\ changed = {}
    /\ synth = None
    /\ muts = 0
    /\ syncs = 0
    /\ buildLog = None
    /\ graphs = <<>>
    /\ asset = None

\* no decoder() call made, no decoder alive
RenderIdle ==
    /\ mutex = 0
    /\ calls = <<>>
    /\ dec = <<>>
    /\ pulled = <<>>
    /\ last = <<>>
    /\ rendered = <<>>
    /\ fillLog = <<>>
    /\ renders = 0

\* no preset entity spawned
ShotIdle ==
    /\ ents = <<>>
    /\ tick = 0
    /\ delta = 0
    /\ inst = None
    /\ out = None
    /\ heard = FALSE
    /\ heart = None

ParamInit ==
    /\ cells = <<>>
    /\ ParamIdle
    /\ EcsIdle
    /\ RenderIdle
    /\ ShotIdle

ParamNext ==
    \/ \E initial \in Vals, lo \in Vals, hi \in Vals : New(initial, lo, hi)
    \/ \E i \in DOMAIN handles : CloneHandle(i)
    \/ \E i \in DOMAIN handles, v \in Vals : Set(i, v)
    \/ \E i \in DOMAIN handles : Get(i)

SpecParam == ParamInit /\ [][ParamNext]_vars

(***************************************************************************)
(* fundsp Net as dsp/graph_builder.rs uses it: units pushed in order,      *)
(* point-to-point connections, graph outputs.  A unit is described by its  *)
(* kind, its input and output arity, the Shared cells it reads on every    *)
(* block (var nodes) and the values frozen into it at construction.        *)
(***************************************************************************)
Unit(kind, ins, outs, reads, konst) ==
    [kind |-> kind, ins |-> ins, outs |-> outs, reads |-> reads, konst |-> konst]

\* Net::new(inputs, outputs)
NetNew(ins, outs) ==
    [nodes |-> <<>>, edges |-> {}, outputs |-> {}, ins |-> ins, outs |-> outs, error |-> FALSE,
     log |-> <<>>]

\* net.push(unit): the new node's id is its position
Push(net, u) == [net EXCEPT !.nodes = Append(@, u)]

\* net.connect(src, src_port, dst, dst_port): panics on an unknown node or port;
\* log is the history of the input ports the calls have named
Connect(net, s, sp, d, dp) ==
    IF /\ s \in DOMAIN net.nodes /\ d \in DOMAIN net.nodes
       /\ sp >= 0 /\ sp < net.nodes[s].outs
       /\ dp >= 0 /\ dp < net.nodes[d].ins
    THEN [net EXCEPT !.edges = {e \in @ : ~(e.dst = d /\ e.dport = dp)}
                                   \cup {[src |-> s, sport |-> sp, dst |-> d, dport |-> dp]},
                     !.log = Append(@, [dst |-> d, dport |-> dp])]
    ELSE [net EXCEPT !.error = TRUE]

\* net.connect_output(src, src_port, output)
ConnectOutput(net, s, sp, o) ==
    IF /\ s \in DOMAIN net.nodes
       /\ sp >= 0 /\ sp < net.nodes[s].outs
       /\ o >= 0 /\ o < net.outs
    THEN [net EXCEPT !.outputs = {e \in @ : e.out # o} \cup {[src |-> s, sport |-> sp, out |-> o]}]
    ELSE [net EXCEPT !.error = TRUE]

(***************************************************************************)
(* dsp/graph_builder.rs.  Frequencies are in Hz, amplitude and low-pass    *)
(* resonance in tenths (0.1 is 1), band-pass bandwidth in Hz.              *)
(***************************************************************************)
FreqMin == 20
FreqMax == 20000
AmpMin == 0
AmpMax == 10
CutoffMin == 20
CutoffMax == 20000
ResMin == 1
ResMax == 100
BwMin == 10
BwMax == 5000

OscillatorTypes == {"Sine", "Saw", "Square", "Triangle", "Noise"}

\* a filter choice that lets high-pass win over low-pass
FilterChoiceHighFirst(lp, hp, bp) ==
    IF hp # None THEN "highpass"
    ELSE IF lp # None THEN "lowpass"
    ELSE IF bp # None THEN "bandpass"
    ELSE "none"

\* if let Some(lp) = low_pass {..} else if let Some(hp) = high_pass {..}
\* else if let Some(bp) = band_pass {..}
FilterChoice(lp, hp, bp) ==
    IF lp # None THEN "lowpass"
    ELSE IF hp # None THEN "highpass"
    ELSE IF bp # None THEN "bandpass"
    ELSE "none"

\* match osc_type { .. => net.push(..) }: every waveform but Noise is driven by
\* var(&freq_s); noise() takes no input
OscUnit(osc, freqCell) ==
    IF osc = "Noise"
    THEN Unit("noise", 0, 1, {}, <<>>)
    ELSE Unit(osc, 0, 1, {freqCell}, <<>>)

\* The filter stage of build_synth_graph on builder state
\* b = [net, cells, last, cutoff, res].
FilterStage(b, lp, hp, bp) ==
    LET choice == FilterChoice(lp, hp, bp)
        n == Len(b.net.nodes)
        c == Len(b.cells)
    IN  IF choice = "lowpass" THEN
            LET cutoff == ParamHandleNew(c + 1, CutoffMin, CutoffMax)
                res == ParamHandleNew(c + 2, ResMin, ResMax)
                n1 == Push(b.net, Unit("var", 0, 1, {cutoff.inner}, <<>>))
                n2 == Push(n1, Unit("var", 0, 1, {res.inner}, <<>>))
                n3 == Push(n2, Unit("moog", 3, 1, {}, <<>>))
                n4 == Connect(n3, b.last, 0, n + 3, 0)
                n5 == Connect(n4, n + 1, 0, n + 3, 1)
                n6 == Connect(n5, n + 2, 0, n + 3, 2)
            IN  [net |-> n6,
                 cells |-> SharedNew(SharedNew(b.cells, lp[1].cutoff_hz), lp[1].resonance),
                 last |-> n + 3, cutoff |-> Some(cutoff), res |-> Some(res)]
        ELSE IF choice = "highpass" THEN
            LET cutoff == ParamHandleNew(c + 1, CutoffMin, CutoffMax)
                n1 == Push(b.net, Unit("highpole_hz", 1, 1, {}, <<hp[1].cutoff_hz>>))
                n2 == Connect(n1, b.last, 0, n + 1, 0)
            IN  [net |-> n2,
                 cells |-> SharedNew(b.cells, hp[1].cutoff_hz),
                 last |-> n + 1, cutoff |-> Some(cutoff), res |-> None]
        ELSE IF choice = "bandpass" THEN
            LET cutoff == ParamHandleNew(c + 1, CutoffMin, CutoffMax)
                bw == ParamHandleNew(c + 2, BwMin, BwMax)
                n1 == Push(b.net, Unit("var", 0, 1, {cutoff.inner}, <<>>))
                n2 == Push(n1, Unit("var", 0, 1, {bw.inner}, <<>>))
                n3 == Push(n2, Unit("bandpass", 3, 1, {}, <<>>))
                n4 == Connect(n3, b.last, 0, n + 3, 0)
                n5 == Connect(n4, n + 1, 0, n + 3, 1)
                n6 == Connect(n5, n + 2, 0, n + 3, 2)
            IN  [net |-> n6,
                 cells |-> SharedNew(SharedNew(b.cells, bp[1].center_hz), bp[1].bandwidth),
                 last |-> n + 3, cutoff |-> Some(cutoff), res |-> Some(bw)]
        ELSE b

\* a distortion stage whose node is pushed and left unconnected
DistortionStageUnwired(b, dist) ==
    IF dist = None THEN b
    ELSE [b EXCEPT !.net = Push(@, Unit("distortion", 1, 1, {}, <<dist[1].drive, dist[1].mix>>))]

\* if let Some(dist) = distortion { push map(..); connect }
DistortionStage(b, dist) ==
    IF dist = None THEN b
    ELSE LET n == Len(b.net.nodes)
             n1 == Push(b.net, Unit("distortion", 1, 1, {}, <<dist[1].drive, dist[1].mix>>))
             n2 == Connect(n1, b.last, 0, n + 1, 0)
         IN  [b EXCEPT !.net = n2, !.last = n + 1]

\* an amplitude applied as a gain fixed at construction
StaticGainAndSplitStage(b, ampCell) ==
    LET n == Len(b.net.nodes)
        n1 == Push(b.net, Unit("gain", 1, 1, {}, <<b.cells[ampCell]>>))
        n2 == Connect(n1, b.last, 0, n + 1, 0)
        n3 == Push(n2, Unit("split", 1, 2, {}, <<>>))
        n4 == Connect(n3, n + 1, 0, n + 2, 0)
        n5 == ConnectOutput(n4, n + 2, 0, 0)
        n6 == ConnectOutput(n5, n + 2, 1, 1)
    IN  [b EXCEPT !.net = n6, !.last = n + 2]

\* amplitude multiply, stereo split and the two graph outputs
AmpAndSplitStage(b, ampCell) ==
    LET n == Len(b.net.nodes)
        n1 == Push(b.net, Unit("var", 0, 1, {ampCell}, <<>>))
        n2 == Push(n1, Unit("mul", 2, 1, {}, <<>>))
        n3 == Connect(n2, b.last, 0, n + 2, 0)
        n4 == Connect(n3, n + 1, 0, n + 2, 1)
        n5 == Push(n4, Unit("split", 1, 2, {}, <<>>))
        n6 == Connect(n5, n + 2, 0, n + 3, 0)
        n7 == ConnectOutput(n6, n + 3, 0, 0)
        n8 == ConnectOutput(n7, n + 3, 1, 1)
    IN  [b EXCEPT !.net = n8, !.last = n + 3]

\* build_synth_graph: the cells heap after the call, the graph
\* (net, and net >> reverb2_stereo(..) when a Reverb is given) and SynthParams
BuildSynthGraph(cs, osc, freq, amp, lp, hp, bp, reverb_cfg, delay, dist) ==
    LET freq_param == ParamHandleNew(Len(cs) + 1, FreqMin, FreqMax)
        amp_param == ParamHandleNew(Len(cs) + 2, AmpMin, AmpMax)
        cs2 == SharedNew(SharedNew(cs, freq), amp)
        b0 == [net |-> Push(NetNew(0, 2), OscUnit(osc, freq_param.inner)),
               cells |-> cs2, last |-> 1, cutoff |-> None, res |-> None]
        b1 == FilterStage(b0, lp, hp, bp)
        b2 == DistortionStage(b1, dist)
        b3 == AmpAndSplitStage(b2, amp_param.inner)
    IN  [cells |-> b3.cells,
         graph |-> [net |-> b3.net,
                    reverb |-> IF reverb_cfg = None THEN None
                               ELSE Some([room |-> reverb_cfg[1].room_size,
                                          time |-> reverb_cfg[1].decay_time,
                                          damp |-> reverb_cfg[1].damping,
                                          speed |-> 1])],
         params |-> [frequency |-> freq_param, amplitude |-> amp_param,
                     filter_cutoff |-> b3.cutoff, filter_resonance |-> b3.res]]

\* the Shared cells a graph loads on every process call (its var nodes)
ReadCells(g) == UNION {g.net.nodes[n].reads : n \in DOMAIN g.net.nodes}

\* the handles of a SynthParams bundle
BundleHandles(ps) ==
    {ps.frequency, ps.amplitude}
        \cup (IF ps.filter_cutoff = None THEN {} ELSE {ps.filter_cutoff[1]})
        \cup (IF ps.filter_resonance = None THEN {} ELSE {ps.filter_resonance[1]})

(***************************************************************************)
(* dsp/source.rs: the asset and the graph instances.  A graph instance is  *)
(* the built unit plus its internal state: its local time t in frames and  *)
(* mem, everything its oscillators, filters and delay lines carry from the *)
(* blocks it has rendered (the parameter values read at each of them).     *)
(***************************************************************************)
SAMPLE_RATE == 44100
CHANNELS == 2

\* AudioUnit::set_sample_rate: keeps the state when the rate is unchanged, and may
\* reset the unit when it changes
SetSampleRate(g, sr) ==
    IF g.sr = sr THEN g ELSE [g EXCEPT !.sr = sr, !.t = 0, !.mem = <<>>]

\* an allocate that reserves nothing
AllocateNothing(g) == g

\* AudioUnit::allocate
Allocate(g) == [g EXCEPT !.allocated = TRUE]

\* ProceduralAudio::new: set_sample_rate and allocate on the graph as built
ProceduralAudioNew(unit, sr) ==
    Allocate(SetSampleRate([unit |-> unit, sr |-> 0, allocated |-> FALSE, t |-> 0, mem |-> <<>>], sr))

\* a var node captured by value when the graph was built
ReadParamsAtBuild(cs, unit) == [c \in ReadCells(unit) |-> buildLog[1].cells[c]]

\* the atomic loads the var nodes of a graph make during one process call
ReadParams(cs, unit) == [c \in ReadCells(unit) |-> cs[c]]

\* a clock shared by every playback
BlockStartGlobal(g) == renders * MAX_BUFFER_SIZE

\* the local time at which the next block of a graph instance starts
BlockStart(g) == g.t

\* graph.process(size, ..): the block produced, described by its start time, the
\* state the instance was in and the parameter values read
ProcessBlock(g, cs) == [t0 |-> BlockStart(g), hist |-> g.mem, reads |-> ReadParams(cs, g.unit)]

\* the instance after graph.process(size, ..)
ProcessState(g, cs) ==
    [g EXCEPT !.t = @ + MAX_BUFFER_SIZE, !.mem = Append(@, ReadParams(cs, g.unit))]

\* output.at_f32(channel, i) of a produced block
AtF32(blk, channel, i) == [t |-> blk.t0 + i, ch |-> channel, hist |-> blk.hist, reads |-> blk.reads]

\* the 0.0 a buffer is filled with before anything is rendered into it
Zero == [t |-> -1, ch |-> -1, hist |-> <<>>, reads |-> <<>>]

\* a clone that keeps pointing at the graph it was cloned from
CloneGraphShared(heap, gid) == gid

\* Box<dyn AudioUnit>::clone: a new instance, state included
CloneGraphId(heap, gid) == Len(heap) + 1

\* a guard that outlives the call
KeepGuard(m, c) == m

\* the MutexGuard is dropped when decoder() returns
DropGuard(m, c) == IF m = c THEN 0 ELSE m

Callers == 1..MaxDecoders

\* decoder(): self.graph.lock(); callers are numbered in the order they get the lock
DecoderLock(c) ==
    /\ asset # None
    /\ calls[c].pc = "start"
    /\ \A o \in Callers : o < c => calls[o].pc # "start"
    /\ mutex = 0
    /\ mutex' = c
    /\ calls' = [calls EXCEPT ![c].pc = "locked", ![c].acq = @ + 1]
    /\ UNCHANGED <<cells, paramVars, ecsVars, shotVars, assetVars, dec, pulled, last, rendered, fillLog, renders>>

\* decoder(): graph.clone(); cloned.set_sample_rate(..); cloned.allocate()
DecoderClone(c) ==
    /\ calls[c].pc = "locked"
    /\ LET src == asset[1].graph
           id == CloneGraphId(graphs, src)
           g == Allocate(SetSampleRate(graphs[src], asset[1].sample_rate))
       IN  /\ graphs' = IF id \in DOMAIN graphs THEN [graphs EXCEPT ![id] = g]
                        ELSE Append(graphs, g)
           /\ calls' = [calls EXCEPT ![c].pc = "cloned", ![c].cloned = id]
    /\ UNCHANGED <<cells, paramVars, ecsVars, shotVars, asset, mutex, dec, pulled, last, rendered, fillLog, renders>>

\* a first position beyond the end of the buffer
FirstPosPast(ch) == MAX_BUFFER_SIZE * ch + 1

\* pos of a new decoder: force fill on first call
FirstPos(ch) == MAX_BUFFER_SIZE * ch

\* decoder(): the ProceduralAudioDecoder is built and returned, the guard dropped
DecoderReturn(c) ==
    /\ calls[c].pc = "cloned"
    /\ LET ch == asset[1].channels
       IN  dec' = [dec EXCEPT ![c] = Some([graph |-> calls[c].cloned,
                                           sample_rate |-> asset[1].sample_rate,
                                           channels |-> ch,
                                           buffer |-> [k \in 1..(MAX_BUFFER_SIZE * ch) |-> Zero],
                                           pos |-> FirstPos(ch),
                                           total |-> MAX_BUFFER_SIZE * ch,
                                           pc |-> "ready"])]
    /\ mutex' = DropGuard(mutex, c)
    /\ calls' = [calls EXCEPT ![c].pc = "done"]
    /\ UNCHANGED <<cells, paramVars, ecsVars, shotVars, assetVars, pulled, last, rendered, fillLog, renders>>

\* Vec::resize(n, 0.0)
Resize(buf, n) == [k \in 1..n |-> IF k <= Len(buf) THEN buf[k] ELSE Zero]

\* an interleave that forgets the channel count
InterleaveBaseMono(i, ch) == i

\* let base = i * ch
InterleaveBase(i, ch) == i * ch

\* for i in 0..size { buffer[base] = at_f32(0, i); if ch >= 2 { buffer[base + 1] = at_f32(1, i) } }
\* from frame i on (buffer index k of the code is k + 1 here)
RECURSIVE Interleave(_, _, _, _)
Interleave(buf, blk, ch, i) ==
    IF i >= MAX_BUFFER_SIZE THEN buf
    ELSE LET base == InterleaveBase(i, ch)
             b1 == [buf EXCEPT ![base + 1] = AtF32(blk, 0, i)]
             b2 == IF ch >= 2 THEN [b1 EXCEPT ![base + 2] = AtF32(blk, 1, i)] ELSE b1
         IN  Interleave(b2, blk, ch, i + 1)

\* next() with pos < total: serve buffer[pos]
NextServe(c) ==
    /\ dec[c] # None
    /\ dec[c][1].pc = "ready"
    /\ dec[c][1].pos < dec[c][1].total
    /\ last' = [last EXCEPT ![c] = Some(dec[c][1].buffer[dec[c][1].pos + 1])]
    /\ dec' = [dec EXCEPT ![c][1].pos = @ + 1]
    /\ pulled' = [pulled EXCEPT ![c] = @ + 1]
    /\ UNCHANGED <<cells, paramVars, ecsVars, shotVars, assetVars, mutex, calls, rendered, fillLog, renders>>

\* next() with pos >= total enters fill_block: the buffer is resized
NextFillStart(c) ==
    /\ dec[c] # None
    /\ dec[c][1].pc = "ready"
    /\ dec[c][1].pos >= dec[c][1].total
    /\ renders < MaxRenders
    /\ dec' = [dec EXCEPT ![c][1].pc = "fill",
                          ![c][1].buffer = Resize(@, MAX_BUFFER_SIZE * dec[c][1].channels)]
    /\ fillLog' = [fillLog EXCEPT ![c] = Some([cells |-> [x \in ReadCells(graphs[dec[c][1].graph].unit) |-> cells[x]],
                                               syncs |-> syncs])]
    /\ UNCHANGED <<cells, paramVars, ecsVars, shotVars, assetVars, mutex, calls, pulled, last, rendered, renders>>

\* fill_block: graph.process, interleave, total and pos reset; next() then serves buffer[0]
NextFillProcess(c) ==
    /\ dec[c] # None
    /\ dec[c][1].pc = "fill"
    /\ LET d == dec[c][1]
           blk == ProcessBlock(graphs[d.graph], cells)
           buf == Interleave(d.buffer, blk, d.channels, 0)
       IN  /\ graphs' = [graphs EXCEPT ![d.graph] = ProcessState(@, cells)]
           /\ dec' = [dec EXCEPT ![c][1].buffer = buf,
                                 ![c][1].total = MAX_BUFFER_SIZE * d.channels,
                                 ![c][1].pos = 1,
                                 ![c][1].pc = "ready"]
           /\ last' = [last EXCEPT ![c] = Some(buf[1])]
           /\ rendered' = [rendered EXCEPT ![c] = Append(@, blk)]
    /\ pulled' = [pulled EXCEPT ![c] = @ + 1]
    /\ fillLog' = [fillLog EXCEPT ![c] = None]
    /\ renders' = renders + 1
    /\ UNCHANGED <<cells, paramVars, ecsVars, shotVars, asset, mutex, calls>>


(***************************************************************************)
(* One entity carrying Synth, served by graph_build_system and             *)
(* param_sync_system.                                                      *)
(***************************************************************************)
\* component values the host writes (amplitude in tenths, resonance in tenths)
FreqVals == {880, 30000}
AmpVals == {5, 20}
LowPassVals == {[cutoff_hz |-> 1000, resonance |-> 10], [cutoff_hz |-> 30000, resonance |-> 200]}
HighPassVals == {[cutoff_hz |-> 200, resonance |-> 10], [cutoff_hz |-> 10, resonance |-> 20]}
BandPassVals == {[center_hz |-> 1500, bandwidth |-> 200], [center_hz |-> 5, bandwidth |-> 9000]}
ReverbVals == {[room_size |-> 5, decay_time |-> 15, damping |-> 3, mix |-> 3],
               [room_size |-> 9, decay_time |-> 30, damping |-> 5, mix |-> 10],
               [room_size |-> 5, decay_time |-> 15, damping |-> 3, mix |-> 0]}
DelayVals == {[time_seconds |-> 3, feedback |-> 4, mix |-> 3],
              [time_seconds |-> 6, feedback |-> 8, mix |-> 10]}
DistortionVals == {[drive |-> 20, mix |-> 5], [drive |-> 40, mix |-> 10]}

Opt(S) == {None} \cup {Some(x) : x \in S}

\* impl Default for OscillatorType / Frequency / Amplitude
DefaultOsc == "Sine"
DefaultFrequency == 440
DefaultAmplitude == 3

\* Option::unwrap_or_default
UnwrapOr(o, d) == IF o = None THEN d ELSE o[1]

\* the component sets an entity is spawned with: filters and effects, when present,
\* start in range; the host may move them out of range later
SpawnValues ==
    [osc : Opt(OscillatorTypes), freq : Opt(FreqVals), amp : Opt(AmpVals),
     lp : Opt({[cutoff_hz |-> 1000, resonance |-> 10]}),
     hp : Opt({[cutoff_hz |-> 200, resonance |-> 10]}),
     bp : Opt({[center_hz |-> 1500, bandwidth |-> 200]}),
     reverb : Opt({[room_size |-> 5, decay_time |-> 15, damping |-> 3, mix |-> 3]}),
     delay : Opt({[time_seconds |-> 3, feedback |-> 4, mix |-> 3]}),
     dist : Opt({[drive |-> 20, mix |-> 5]})]

SyncedComponents == {"freq", "amp", "lp", "hp", "bp"}

\* graph_build_system, for the entity with Added<Synth>: build the graph, wrap it in
\* an asset, insert SynthParams
GraphBuildSystem ==
    /\ comp # None
    /\ synth = None
    /\ LET c == comp[1]
           r == BuildSynthGraph(cells, UnwrapOr(c.osc, DefaultOsc),
                                UnwrapOr(c.freq, DefaultFrequency),
                                UnwrapOr(c.amp, DefaultAmplitude),
                                c.lp, c.hp, c.bp, c.reverb, c.delay, c.dist)
       IN  /\ cells' = r.cells
           /\ synth' = Some([params |-> r.params, graph |-> r.graph])
           /\ buildLog' = Some([comp |-> c, cells |-> r.cells])
           /\ graphs' = Append(graphs, ProceduralAudioNew(r.graph, SAMPLE_RATE))
           /\ asset' = Some([graph |-> Len(graphs) + 1, sample_rate |-> SAMPLE_RATE,
                             channels |-> CHANNELS])
    /\ UNCHANGED <<comp, changed, muts, syncs, paramVars, renderVars, shotVars>>

\* the host mutates one component the entity carries
Mutate(name, v) ==
    /\ comp # None
    /\ muts < MaxMutations
    /\ comp[1][name] # None
    /\ comp[1][name] # Some(v)
    /\ comp' = Some([comp[1] EXCEPT ![name] = Some(v)])
    /\ changed' = IF name \in SyncedComponents THEN changed \cup {name} ELSE changed
    /\ muts' = muts + 1
    /\ UNCHANGED <<cells, synth, syncs, buildLog, paramVars, assetVars, renderVars, shotVars>>

\* Option<ParamHandle>: if let Some(ref h) = o { h.set(v) }
SetIfSome(cs, o, v) == IF o = None THEN cs ELSE ParamSet(cs, o[1], v)

\* a sync that also pushes Reverb.mix into the amplitude handle whenever it runs
ParamSyncWithReverb(cs, c, ps, ch) ==
    LET c1 == IF "freq" \in ch THEN ParamSet(cs, ps.frequency, c.freq[1]) ELSE cs
        c2 == IF "amp" \in ch THEN ParamSet(c1, ps.amplitude, c.amp[1]) ELSE c1
    IN  IF c.reverb # None THEN ParamSet(c2, ps.amplitude, c.reverb[1].mix) ELSE c2

\* param_sync_system: the five Changed<_> queries in order; each matches the entity
\* only when it also carries SynthParams
ParamSync(cs, c, ps, ch) ==
    LET c1 == IF "freq" \in ch THEN ParamSet(cs, ps.frequency, c.freq[1]) ELSE cs
        c2 == IF "amp" \in ch THEN ParamSet(c1, ps.amplitude, c.amp[1]) ELSE c1
        c3 == IF "lp" \in ch
              THEN SetIfSome(SetIfSome(c2, ps.filter_cutoff, c.lp[1].cutoff_hz),
                             ps.filter_resonance, c.lp[1].resonance)
              ELSE c2
        c4 == IF "hp" \in ch THEN SetIfSome(c3, ps.filter_cutoff, c.hp[1].cutoff_hz) ELSE c3
        c5 == IF "bp" \in ch
              THEN SetIfSome(SetIfSome(c4, ps.filter_cutoff, c.bp[1].center_hz),
                             ps.filter_resonance, c.bp[1].bandwidth)
              ELSE c4
    IN  c5

ParamSyncSystem ==
    /\ comp # None
    /\ changed # {}
    /\ cells' = IF synth = None THEN cells
                ELSE ParamSync(cells, comp[1], synth[1].params, changed)
    /\ syncs' = IF synth = None THEN syncs ELSE syncs + 1
    /\ changed' = {}
    /\ UNCHANGED <<comp, synth, muts, buildLog, paramVars, assetVars, renderVars, shotVars>>

\* the entity as spawned: every component it carries counts as changed
BuildInit ==
    /\ cells = <<>>
    /\ ParamIdle
    /\ comp \in {Some(c) : c \in SpawnValues}
    /\ changed = {n \in SyncedComponents : comp[1][n] # None}
    /\ synth = None
    /\ muts = 0
    /\ syncs = 0
    /\ buildLog = None
    /\ graphs = <<>>
    /\ asset = None
    /\ RenderIdle
    /\ ShotIdle

BuildNext ==
    \/ GraphBuildSystem
    \/ \E v \in FreqVals : Mutate("freq", v)
    \/ \E v \in AmpVals : Mutate("amp", v)
    \/ \E v \in LowPassVals : Mutate("lp", v)
    \/ \E v \in HighPassVals : Mutate("hp", v)
    \/ \E v \in BandPassVals : Mutate("bp", v)
    \/ \E v \in ReverbVals : Mutate("reverb", v)
    \/ \E v \in DelayVals : Mutate("delay", v)
    \/ \E v \in DistortionVals : Mutate("dist", v)
    \/ ParamSyncSystem

SpecBuild == BuildInit /\ [][BuildNext]_vars

\* the entity the render model plays: a built Sine synth with no filter and no effect
RenderSpawn ==
    [osc |-> Some("Sine"), freq |-> Some(880), amp |-> Some(5),
     lp |-> None, hp |-> None, bp |-> None, reverb |-> None, delay |-> None, dist |-> None]

\* the state graph_build_system leaves, before any decoder() call
RenderInit ==
    /\ ParamIdle
    /\ comp = Some(RenderSpawn)
    /\ changed = {"freq", "amp"}
    /\ muts = 0
    /\ syncs = 0
    /\ LET r == BuildSynthGraph(<<>>, "Sine", 880, 5, None, None, None, None, None, None)
       IN  /\ cells = r.cells
           /\ synth = Some([params |-> r.params, graph |-> r.graph])
           /\ buildLog = Some([comp |-> RenderSpawn, cells |-> r.cells])
           /\ graphs = <<ProceduralAudioNew(r.graph, SAMPLE_RATE)>>
           /\ asset = Some([graph |-> 1, sample_rate |-> SAMPLE_RATE, channels |-> CHANNELS])
    /\ mutex = 0
    /\ calls = [c \in Callers |-> [pc |-> "start", cloned |-> 0, acq |-> 0]]
    /\ dec = [c \in Callers |-> None]
    /\ pulled = [c \in Callers |-> 0]
    /\ last = [c \in Callers |-> None]
    /\ rendered = [c \in Callers |-> <<>>]
    /\ fillLog = [c \in Callers |-> None]
    /\ renders = 0
    /\ ShotIdle

RenderNext ==
    \/ \E c \in Callers : DecoderLock(c)
    \/ \E c \in Callers : DecoderClone(c)
    \/ \E c \in Callers : DecoderReturn(c)
    \/ \E c \in Callers : NextServe(c)
    \/ \E c \in Callers : NextFillStart(c)
    \/ \E c \in Callers : NextFillProcess(c)
    \/ \E v \in FreqVals : Mutate("freq", v)
    \/ ParamSyncSystem

SpecRender == RenderInit /\ [][RenderNext]_vars

(***************************************************************************)
(* Claims about the parameter bridge (checked under SpecParam).            *)
(***************************************************************************)
Max2(a, b) == IF a >= b THEN a ELSE b
Min2(a, b) == IF a <= b THEN a ELSE b

\* handle i is the one the latest set on its cell's family went through
LastSetVia(i) == lastSet[root[i]] # None /\ lastSet[root[i]][1].via = i

\* C1: for a handle with min <= max, after set(v) (and no other set since) get()
\* returns clamp(v, min, max), and no set through such a handle raises an error.
C1_SetThenGetIsClamp ==
    /\ \A i \in DOMAIN handles :
          (handles[i].min <= handles[i].max /\ LastSetVia(i)) =>
              ParamGet(cells, handles[i]) =
                  Min2(Max2(lastSet[root[i]][1].raw, handles[i].min), handles[i].max)
    /\ panicked # 0 => handles[panicked].min > handles[panicked].max

\* C1 witness: a value above max was set and the get() that followed returned max
C1_Witness ==
    \E i \in DOMAIN handles :
        /\ handles[i].min < handles[i].max
        /\ LastSetVia(i)
        /\ lastSet[root[i]][1].raw > handles[i].max
        /\ ret = Some([via |-> i, value |-> handles[i].max])
        /\ panicked = 0

\* C2: in every reachable state the stored value of a handle with min <= max lies
\* in [min, max], also right after new() with any initial value.
C2_ValueAlwaysInRange ==
    \A i \in DOMAIN handles :
        handles[i].min <= handles[i].max =>
            /\ ParamGet(cells, handles[i]) >= handles[i].min
            /\ ParamGet(cells, handles[i]) <= handles[i].max

\* C3: all clones of one handle observe one cell, last write wins: get() through
\* every clone returns the clamped value of the most recent set through any clone.
C3_ClonesShareLastWrite ==
    \A i \in DOMAIN handles, j \in DOMAIN handles :
        root[i] = root[j] =>
            /\ ParamGet(cells, handles[i]) = ParamGet(cells, handles[j])
            /\ lastSet[root[i]] # None =>
                  LET w == lastSet[root[i]][1]
                  IN  ParamGet(cells, handles[j]) =
                          Clamp(w.raw, handles[w.via].min, handles[w.via].max)

\* C3 witness: the last set went through one clone, the get() through the other
C3_Witness ==
    \E i \in DOMAIN handles, j \in DOMAIN handles :
        /\ i # j /\ root[i] = root[j]
        /\ handles[i].min < handles[i].max
        /\ LastSetVia(j)
        /\ ret # None /\ ret[1].via = i
        /\ ret[1].value = lastSet[root[i]][1].raw

(***************************************************************************)
(* Claims about build_synth_graph (checked under SpecBuild).               *)
(***************************************************************************)
FilterKinds == {"moog", "highpole_hz", "bandpass"}

\* the filter units of a graph
FilterNodes(g) == {n \in DOMAIN g.net.nodes : g.net.nodes[n].kind \in FilterKinds}

\* the value build_synth_graph left in the cell of an optional handle
BuiltValue(o) == buildLog[1].cells[o[1].inner]

\* C9: at most one filter stage is inserted, chosen low-pass > high-pass > band-pass,
\* and the filter handles of the bundle are initialised from the chosen config only.
C9_FilterPriority ==
    synth # None =>
        LET c == buildLog[1].comp
            g == synth[1].graph
            ps == synth[1].params
            kinds == {g.net.nodes[n].kind : n \in FilterNodes(g)}
        IN  /\ Cardinality(FilterNodes(g)) <= 1
            /\ c.lp # None =>
                  /\ kinds = {"moog"}
                  /\ ps.filter_cutoff # None /\ BuiltValue(ps.filter_cutoff) = c.lp[1].cutoff_hz
                  /\ ps.filter_resonance # None /\ BuiltValue(ps.filter_resonance) = c.lp[1].resonance
            /\ (c.lp = None /\ c.hp # None) =>
                  /\ kinds = {"highpole_hz"}
                  /\ ps.filter_cutoff # None /\ BuiltValue(ps.filter_cutoff) = c.hp[1].cutoff_hz
                  /\ ps.filter_resonance = None
            /\ (c.lp = None /\ c.hp = None /\ c.bp # None) =>
                  /\ kinds = {"bandpass"}
                  /\ ps.filter_cutoff # None /\ BuiltValue(ps.filter_cutoff) = c.bp[1].center_hz
                  /\ ps.filter_resonance # None /\ BuiltValue(ps.filter_resonance) = c.bp[1].bandwidth
            /\ (c.lp = None /\ c.hp = None /\ c.bp = None) =>
                  /\ kinds = {}
                  /\ ps.filter_cutoff = None
                  /\ ps.filter_resonance = None

\* C9 witness: all three filter configs were present and the low-pass stage was built
C9_Witness ==
    /\ synth # None
    /\ buildLog[1].comp.lp # None /\ buildLog[1].comp.hp # None /\ buildLog[1].comp.bp # None
    /\ \E n \in DOMAIN synth[1].graph.net.nodes : synth[1].graph.net.nodes[n].kind = "moog"

\* C10: every handle of the returned bundle is read by a parameter-reader node of
\* the returned graph, for every oscillator type and every filter choice.
C10_EveryHandleLive ==
    synth # None =>
        \A h \in BundleHandles(synth[1].params) : h.inner \in ReadCells(synth[1].graph)

(***************************************************************************)
(* Claims about the render/decode bridge (checked under SpecRender).       *)
(***************************************************************************)
\* the block decoder c rendered last
LastBlock(c) == rendered[c][Len(rendered[c])]

\* decoder c makes the process call of a fill_block in this step
ProcessStep(c) == fillLog[c] # None /\ fillLog'[c] = None

PullStep(c) == dec[c] # None /\ dec'[c] # dec[c]

\* C5: pulling samples from one decoder changes neither another decoder of the same
\* asset (its fields, its graph instance's state, its output) nor the asset's
\* canonical graph.
C5_PlaybackIsolation ==
    [][\A c \in Callers : PullStep(c) =>
          /\ graphs'[asset[1].graph] = graphs[asset[1].graph]
          /\ \A o \in Callers \ {c} :
                /\ dec'[o] = dec[o]
                /\ rendered'[o] = rendered[o]
                /\ last'[o] = last[o]
                /\ dec[o] # None => graphs'[dec[o][1].graph] = graphs[dec[o][1].graph]]_vars

\* C5 witness: two decoders of the asset are alive and have each rendered a block,
\* one has been pulled to the end of its buffer while the other has served only its
\* first sample, and the canonical graph is still at local time 0
C5_Witness ==
    \E c \in Callers, o \in Callers :
        /\ c # o
        /\ dec[c] # None /\ dec[o] # None
        /\ Len(rendered[c]) = 1 /\ Len(rendered[o]) = 1
        /\ dec[c][1].pos = dec[c][1].total /\ dec[o][1].pos = 1
        /\ graphs[asset[1].graph].t = 0
        /\ graphs[dec[c][1].graph].t = MAX_BUFFER_SIZE
        /\ graphs[dec[o][1].graph].t = MAX_BUFFER_SIZE

\* decoders a and b read equal parameter values at each of their first k blocks
SameReadsUpTo(a, b, k) == \A j \in 1..k : rendered[a][j].reads = rendered[b][j].reads

\* C6: two decoders of the same asset, whenever created, produce identical blocks
\* from their first one on, as far as the parameter values read at corresponding
\* blocks are equal.
C6_DeterminismFromTimeZero ==
    \A a \in Callers, b \in Callers :
        \A k \in 1..Min2(Len(rendered[a]), Len(rendered[b])) :
            SameReadsUpTo(a, b, k) => rendered[a][k] = rendered[b][k]

\* C6 witness: two decoders of the asset, one pulled to the end of its first block
\* and the other just started, produced the same first block
C6_Witness ==
    \E a \in Callers, b \in Callers :
        /\ a # b
        /\ Len(rendered[a]) = 1 /\ Len(rendered[b]) = 1
        /\ pulled[a] = MAX_BUFFER_SIZE * CHANNELS /\ pulled[b] = 1
        /\ dec[a][1].graph # dec[b][1].graph
        /\ rendered[a][1].reads = rendered[b][1].reads
        /\ rendered[a][1] = rendered[b][1]

\* C7: the asset's mutex is taken exactly once per decoder() call and is free of
\* that call when it has returned; a decoder's next() is never held up by the
\* mutex, and the call holding it can always go on.
C7_LockOnlyWhileCloning ==
    /\ \A c \in Callers :
          /\ calls[c].pc = "done" => (calls[c].acq = 1 /\ mutex # c)
          /\ (mutex = c) <=> (calls[c].pc \in {"locked", "cloned"})
          /\ (dec[c] # None /\ (dec[c][1].pos < dec[c][1].total \/ renders < MaxRenders)) =>
                ENABLED (NextServe(c) \/ NextFillStart(c) \/ NextFillProcess(c))
    /\ mutex # 0 => ENABLED (DecoderClone(mutex) \/ DecoderReturn(mutex))
    /\ (mutex = 0 /\ \E c \in Callers : calls[c].pc = "start") =>
          ENABLED (\E c \in Callers : DecoderLock(c))

\* C7 witness: one decoder is rendering while another decoder() call holds the mutex
C7_Witness ==
    \E c \in Callers, o \in Callers :
        /\ calls[c].pc = "done" /\ dec[c][1].pc = "fill"
        /\ mutex = o /\ calls[o].pc = "cloned"

\* C8: for a stereo decoder the k-th sample returned by next() is channel k mod 2 of
\* frame k div 2 of the concatenated rendered blocks, and process has been called
\* once on the first pull and once more per MAX_BUFFER_SIZE*2 samples pulled.
C8_InterleavedStream ==
    \A c \in Callers :
        (dec[c] # None /\ dec[c][1].channels = 2) =>
            IF pulled[c] = 0 THEN rendered[c] = <<>> /\ last[c] = None
            ELSE LET k == pulled[c] - 1
                     frame == k \div 2
                     b == frame \div MAX_BUFFER_SIZE
                 IN  /\ Len(rendered[c]) = (k \div (MAX_BUFFER_SIZE * 2)) + 1
                     /\ \A j \in 1..Len(rendered[c]) : rendered[c][j].t0 = (j - 1) * MAX_BUFFER_SIZE
                     /\ last[c] = Some(AtF32(rendered[c][b + 1], k % 2, frame % MAX_BUFFER_SIZE))
                     /\ last[c][1].t = frame

\* C8 witness: the second sample of the second block has been served
C8_Witness ==
    \E c \in Callers :
        /\ dec[c] # None /\ dec[c][1].channels = 2
        /\ pulled[c] = MAX_BUFFER_SIZE * 2 + 2
        /\ last[c][1].ch = 1 /\ last[c][1].t = MAX_BUFFER_SIZE

(***************************************************************************)
(* Claims about the effect and filter components of a built synth          *)
(* (checked under SpecBuild).                                              *)
(***************************************************************************)
EffectComponents == {"reverb", "delay", "dist"}

\* components c with the effect components put back to what build_synth_graph was given
WithBuiltEffects(c) ==
    [c EXCEPT !.reverb = buildLog[1].comp.reverb,
              !.delay = buildLog[1].comp.delay,
              !.dist = buildLog[1].comp.dist]

\* C11: once the graph is built, no step changes the constructed graph or the asset;
\* a step that changes Reverb, Delay or Distortion changes no cell; and whenever
\* cells change they become what the sync would have stored had the effect
\* components never changed since the build.
C11_EffectsNotLive ==
    [][synth # None =>
          /\ synth' = synth
          /\ graphs' = graphs
          /\ asset' = asset
          /\ (\E n \in EffectComponents : comp'[1][n] # comp[1][n]) => cells' = cells
          /\ cells' \in {cells, ParamSync(cells, WithBuiltEffects(comp[1]),
                                          synth[1].params, changed)}]_vars

\* C11 witness: after the build the host changed the Reverb, the sync system has
\* run and stored, and nothing is left to sync
C11_Witness ==
    /\ synth # None
    /\ comp[1].reverb # None
    /\ comp[1].reverb # buildLog[1].comp.reverb
    /\ syncs >= 1
    /\ changed = {}

\* share of the graph's output that has passed through the reverb, in tenths:
\* Box::new(net >> reverb_node) routes the whole signal through it
WetShare(g) == IF g.reverb = None THEN 0 ELSE 10

\* C12: a graph built with Reverb.mix = 0.0 outputs the fully dry signal, with
\* mix = 1.0 the fully wet signal.
C12_ReverbMixIsWetDry ==
    (synth # None /\ buildLog[1].comp.reverb # None) =>
        /\ buildLog[1].comp.reverb[1].mix = 0 => WetShare(synth[1].graph) = 0
        /\ buildLog[1].comp.reverb[1].mix = 10 => WetShare(synth[1].graph) = 10

\* the filter build_synth_graph selected for the entity
SelectedFilter == FilterChoice(buildLog[1].comp.lp, buildLog[1].comp.hp, buildLog[1].comp.bp)

\* the values of the filter_cutoff and filter_resonance handles in heap cs
FilterCells(cs) ==
    [h \in {"filter_cutoff", "filter_resonance"} |->
        IF synth[1].params[h] = None THEN None ELSE Some(ParamGet(cs, synth[1].params[h][1]))]

\* C20: a run of the sync system that has only lower-priority filter components to
\* push (HighPass or BandPass when LowPass was selected, BandPass when HighPass was
\* selected) leaves the filter_cutoff and filter_resonance values unchanged.
C20_LowerPriorityIgnored ==
    [][(/\ synth # None
        /\ changed # {} /\ changed' = {}
        /\ \/ SelectedFilter = "lowpass" /\ changed \subseteq {"hp", "bp"}
           \/ SelectedFilter = "highpass" /\ changed \subseteq {"bp"})
       => FilterCells(cells') = FilterCells(cells)]_vars

(***************************************************************************)
(* presets/*.rs: the one-shot preset graphs.  Times are in milliseconds,   *)
(* intensity and reverb_mix in 1/10000, pitch_shift in hundredths, layer   *)
(* levels in thousandths, frequencies in Hz.  A graph is described by its  *)
(* layers (source times envelope), the low-pass stage after the mix and    *)
(* the dry/wet stage.  fundsp's lfo(f) samples f at control points about   *)
(* 2 ms apart and interpolates between them, so at a frame it produces a   *)
(* value that depends on f up to LfoSpanMs back.  An oscillator or noise   *)
(* source is taken to be non-zero, so a layer's sample is zero exactly     *)
(* when its envelope node's output is, and a sum is zero exactly when      *)
(* every term is.                                                          *)
(***************************************************************************)
\* a layer: source * lfo(env), where env is
\*   if t > cutoff / decay_scale { return 0.0 }  ..onset.. * level * int
\* onset is the time up to which the attack or onset factor is 0; decay_scale is in
\* tenths; stutter marks a half-wave rectified product of sines in the envelope
Layer(name, cutoff, decay_scale, onset, stutter, level, int) ==
    [name |-> name, cutoff |-> cutoff, decay_scale |-> decay_scale, onset |-> onset,
     stutter |-> stutter, gain |-> level * int]

\* reverb2_stereo(room_size, time, diffusion, modulation_speed, lowpole_hz(damp_hz)),
\* the first three in tenths
Reverb2Stereo(room, time, diffusion, speed, damp_hz) ==
    [room |-> room, time |-> time, diffusion |-> diffusion, speed |-> speed, damp_hz |-> damp_hz]

\* the threshold 0.001 of `if reverb_mix > 0.001`
MixThreshold == 10

\* a dry/wet stage with the two gains exchanged
DryWetSwapped(reverb_mix, reverb) ==
    IF reverb_mix > MixThreshold
    THEN Some([dry |-> reverb_mix, wet |-> 10000 - reverb_mix, reverb |-> reverb])
    ELSE None

\* if reverb_mix > 0.001 { (graph.clone() * dc((dry, dry))) + (graph >> reverb) * dc((wet, wet)) }
\* else { graph }
DryWet(reverb_mix, reverb) ==
    IF reverb_mix > MixThreshold
    THEN Some([dry |-> 10000 - reverb_mix, wet |-> reverb_mix, reverb |-> reverb])
    ELSE None

\* pitch.sqrt() in tenths, for the pitch values of the model
Sqrt(pitch) == CHOOSE r \in 0..100 : r * r = pitch

BuildSwordSlashGraph(ss) ==
    LET int == ss.intensity
    IN  [layers |-> <<Layer("v1", 1200, 10, 0, FALSE, 20, int),
                      Layer("v2", 600, 10, 0, FALSE, 15, int),
                      Layer("v3", 300, 10, 0, FALSE, 8, int),
                      Layer("noise_layer", 500, 10, 0, FALSE, 70, int)>>,
         lowpass |-> None,
         mix |-> DryWet(ss.reverb_mix, Reverb2Stereo(3, 6, 4, 1, 5000))]

(***************************************************************************)
(* fundsp graph expressions as the presets write them.  An expression is   *)
(* a sequence of tokens, parsed with the precedence Rust gives the         *)
(* operators fundsp overloads; the parsed graph is evaluated to the signal *)
(* it puts out: a constant, a sine driven by a signal, or a sum.           *)
(***************************************************************************)
Dc(f) == [t |-> "dc", f |-> f]
Sine == [t |-> "sine"]
Op(o) == [t |-> "op", o |-> o]

\* Rust's precedence of binary operators: * binds tighter than +, + tighter than >>
Precedence(o) == CASE o = "*" -> 3 [] o = "+" -> 2 [] o = ">>" -> 1

Ops(toks) == {toks[i].o : i \in {j \in DOMAIN toks : toks[j].t = "op"}}

\* the operator of a sequence of tokens that is applied last
Loosest(toks) == CHOOSE o \in Ops(toks) : \A q \in Ops(toks) : Precedence(o) <= Precedence(q)

\* the operands of operator o in a sequence of tokens
RECURSIVE SplitAt(_, _)
SplitAt(toks, o) ==
    LET at == {i \in DOMAIN toks : toks[i] = Op(o)}
    IN  IF at = {} THEN <<toks>>
        ELSE LET i == CHOOSE k \in at : \A m \in at : k <= m
             IN  <<SubSeq(toks, 1, i - 1)>> \o SplitAt(SubSeq(toks, i + 1, Len(toks)), o)

\* the graph an expression denotes: a node, or an operator and its operands
RECURSIVE Parse(_)
Parse(toks) ==
    IF Len(toks) = 1 THEN toks[1]
    ELSE LET o == Loosest(toks)
             parts == SplitAt(toks, o)
         IN  [t |-> o, args |-> [k \in DOMAIN parts |-> Parse(parts[k])]]

\* the number of inputs of a graph: dc has none, sine() has its frequency, a sum
\* stacks the inputs of its operands, a pipe has those of its first stage
RECURSIVE Inputs(_), InputsOfAll(_, _)
Inputs(g) ==
    CASE g.t = "dc" -> 0
      [] g.t = "sine" -> 1
      [] g.t = "+" -> InputsOfAll(g.args, 1)
      [] g.t = ">>" -> Inputs(g.args[1])

InputsOfAll(args, k) ==
    IF k > Len(args) THEN 0 ELSE Inputs(args[k]) + InputsOfAll(args, k + 1)

\* the signal a graph of one output puts out when fed the signals ins
RECURSIVE Signal(_, _), SignalsOfSum(_, _, _), SignalOfPipe(_, _, _)
Signal(g, ins) ==
    CASE g.t = "dc" -> [sig |-> "const", f |-> g.f]
      [] g.t = "sine" -> [sig |-> "sine", freq |-> ins[1]]
      [] g.t = "+" -> [sig |-> "sum", of |-> SignalsOfSum(g.args, 1, ins)]
      [] g.t = ">>" -> SignalOfPipe(g.args, 1, ins)

SignalsOfSum(args, k, ins) ==
    IF k > Len(args) THEN <<>>
    ELSE LET n == Inputs(args[k])
         IN  <<Signal(args[k], SubSeq(ins, 1, n))>>
                 \o SignalsOfSum(args, k + 1, SubSeq(ins, n + 1, Len(ins)))

SignalOfPipe(args, k, ins) ==
    LET s == Signal(args[k], ins)
    IN  IF k = Len(args) THEN s ELSE SignalOfPipe(args, k + 1, <<s>>)

\* the tokens of `dc(f1) >> sine() + dc(f2) >> sine() + ..`
RECURSIVE SineSumTokens(_)
SineSumTokens(freqs) ==
    IF Len(freqs) = 1 THEN <<Dc(freqs[1]), Op(">>"), Sine>>
    ELSE <<Dc(freqs[1]), Op(">>"), Sine, Op("+")>> \o SineSumTokens(Tail(freqs))

\* what that expression builds
SineSumSource(freqs) ==
    LET g == Parse(SineSumTokens(freqs))
    IN  [ins |-> Inputs(g), outs |-> 1, signal |-> Signal(g, <<>>)]

\* the sum of independent sines, each driven by its own constant frequency
SumOfSines(freqs) ==
    [sig |-> "sum",
     of |-> [k \in DOMAIN freqs |-> [sig |-> "sine", freq |-> [sig |-> "const", f |-> freqs[k]]]]]

\* the Net of build_blunt_impact_graph; frequencies are in hundredths of Hz
BluntImpactNet(bi) ==
    LET pitch == bi.pitch_shift
        thud == SineSumSource(<<45 * pitch, 90 * pitch>>)
        clang == SineSumSource(<<780 * pitch, 1850 * pitch, 3100 * pitch, 4700 * pitch>>)
        n1 == Push(NetNew(0, 2), Unit("crack_src", 0, 1, {}, <<5000 * pitch>>))
        n2 == Push(n1, Unit("lfo", 0, 1, {}, <<"crack_env">>))
        n3 == Push(n2, Unit("mul", 2, 1, {}, <<>>))
        n4 == Connect(n3, 1, 0, 3, 0)
        n5 == Connect(n4, 2, 0, 3, 1)
        n6 == Push(n5, Unit("thud_src", thud.ins, thud.outs, {}, <<thud.signal>>))
        n7 == Push(n6, Unit("lfo", 0, 1, {}, <<"thud_env">>))
        n8 == Push(n7, Unit("mul", 2, 1, {}, <<>>))
        n9 == Connect(n8, 4, 0, 6, 0)
        n10 == Connect(n9, 5, 0, 6, 1)
        n11 == Push(n10, Unit("clang_src", clang.ins, clang.outs, {}, <<clang.signal>>))
        n12 == Push(n11, Unit("lfo", 0, 1, {}, <<"clang_env">>))
        n13 == Push(n12, Unit("mul", 2, 1, {}, <<>>))
        n14 == Connect(n13, 7, 0, 9, 0)
        n15 == Connect(n14, 8, 0, 9, 1)
        n16 == Push(n15, Unit("mix", 3, 1, {}, <<>>))
        n17 == Connect(n16, 3, 0, 10, 0)
        n18 == Connect(n17, 6, 0, 10, 1)
        n19 == Connect(n18, 9, 0, 10, 2)
        n20 == Push(n19, Unit("split", 1, 2, {}, <<>>))
        n21 == Connect(n20, 10, 0, 11, 0)
        n22 == ConnectOutput(n21, 11, 0, 0)
        n23 == ConnectOutput(n22, 11, 1, 1)
    IN  n23

BuildBluntImpactGraph(bi) ==
    LET intensity == bi.intensity
    IN  [layers |-> <<Layer("crack", 100, 10, 0, FALSE, 500, intensity),
                      Layer("thud", 150, 10, 0, FALSE, 350, intensity),
                      Layer("clang", 200, 10, 0, FALSE, 80, intensity)>>,
         net |-> BluntImpactNet(bi),
         lowpass |-> None,
         mix |-> DryWet(bi.reverb_mix, Reverb2Stereo(4, 8, 5, 1, 4000))]

BuildLightningZapGraph(zap) ==
    LET int == zap.intensity
    IN  [layers |-> <<Layer("zap_layer", 550, 10, 0, TRUE, 650, int),
                      Layer("sizzle_layer", 500, 10, 0, TRUE, 400, int),
                      Layer("mid_layer", 500, 10, 0, TRUE, 350, int)>>,
         lowpass |-> None,
         mix |-> DryWet(zap.reverb_mix, Reverb2Stereo(2, 4, 3, 1, 8000))]

BuildLightningStrikeGraph(ls) ==
    LET int == ls.intensity
    IN  [layers |-> <<Layer("crack_layer", 150, 10, 0, FALSE, 500, int),
                      Layer("boom_layer", 2500, 10, 0, FALSE, 700, int),
                      Layer("mid_layer", 1500, 10, 0, FALSE, 300, int),
                      Layer("crackle_layer", 800, 10, 0, FALSE, 60, int)>>,
         lowpass |-> None,
         mix |-> DryWet(ls.reverb_mix, Reverb2Stereo(6, 15, 5, 1, 2000))]

BuildExplosionGraph(ex) ==
    LET int == ex.intensity
        decay_scale == Sqrt(ex.pitch_shift)
    IN  [layers |-> <<Layer("blast_layer", 200, decay_scale, 0, FALSE, 200, int),
                      Layer("boom_layer", 2500, decay_scale, 0, FALSE, 120, int),
                      Layer("rumble_layer", 3000, decay_scale, 0, FALSE, 600, int),
                      Layer("mid_layer", 1500, decay_scale, 0, FALSE, 400, int),
                      Layer("whoosh_layer", 1500, decay_scale, 20, FALSE, 350, int),
                      Layer("crackle_layer", 1800, decay_scale, 50, TRUE, 40, int)>>,
         lowpass |-> Some(ex.lowpass[1]),
         mix |-> DryWet(ex.reverb_mix, Reverb2Stereo(6, 15, 5, 1, 2500))]

BuildArcaneAttackGraph(aa) ==
    LET int == aa.intensity
    IN  [layers |-> <<Layer("shimmer_layer", 550, 10, 0, FALSE, 150, int),
                      Layer("sparkle_layer", 600, 10, 0, TRUE, 250, int),
                      Layer("sweep_layer", 450, 10, 0, FALSE, 120, int),
                      Layer("wash_layer", 600, 10, 0, FALSE, 300, int),
                      Layer("cluster_layer", 400, 10, 0, FALSE, 80, int)>>,
         lowpass |-> Some(aa.lowpass[1]),
         mix |-> DryWet(aa.reverb_mix, Reverb2Stereo(5, 10, 7, 1, 3500))]

\* the graph of a preset component, by its type
BuildPresetGraph(c) ==
    CASE c.kind = "SwordSlash" -> BuildSwordSlashGraph(c)
      [] c.kind = "BluntImpact" -> BuildBluntImpactGraph(c)
      [] c.kind = "LightningZap" -> BuildLightningZapGraph(c)
      [] c.kind = "LightningStrike" -> BuildLightningStrikeGraph(c)
      [] c.kind = "Explosion" -> BuildExplosionGraph(c)
      [] c.kind = "ArcaneAttack" -> BuildArcaneAttackGraph(c)

\* impl Default for SwordSlash, BluntImpact, LightningZap, LightningStrike, Explosion,
\* ArcaneAttack
PresetDefault(kind) ==
    CASE kind = "SwordSlash" ->
            [kind |-> kind, intensity |-> 8000, pitch_shift |-> 100, reverb_mix |-> 0, lowpass |-> None]
      [] kind = "BluntImpact" ->
            [kind |-> kind, intensity |-> 8000, pitch_shift |-> 100, reverb_mix |-> 0, lowpass |-> None]
      [] kind = "LightningZap" ->
            [kind |-> kind, intensity |-> 8000, pitch_shift |-> 100, reverb_mix |-> 0, lowpass |-> None]
      [] kind = "LightningStrike" ->
            [kind |-> kind, intensity |-> 8000, pitch_shift |-> 100, reverb_mix |-> 1500, lowpass |-> None]
      [] kind = "Explosion" ->
            [kind |-> kind, intensity |-> 8000, pitch_shift |-> 100, reverb_mix |-> 1000,
             lowpass |-> Some(20000)]
      [] kind = "ArcaneAttack" ->
            [kind |-> kind, intensity |-> 8000, pitch_shift |-> 100, reverb_mix |-> 3000,
             lowpass |-> Some(20000)]

(***************************************************************************)
(* A playing instance of a preset graph: the unit, the sample rate it was  *)
(* set to, the number of frames it has produced (its local time is         *)
(* frame / rate seconds) and the state its filters and reverb carry.       *)
(***************************************************************************)
\* frames per second at which the preset model renders
RenderRate == 20
\* how long past a preset's last cutoff the model keeps rendering, in ms
TailMs == 200

\* ProceduralAudio::decoder(): a clone of the asset's graph at local time zero
PresetInstance(audio) ==
    [unit |-> audio.graph, rate |-> audio.sample_rate, frame |-> 0,
     mem |-> [lowpass |-> FALSE, reverb |-> FALSE]]

\* the longest stretch between two control points of an lfo, in ms (rounded up)
LfoSpanMs == 3

\* a cutoff test that passes only at twice the cutoff time
PastCutoffDoubled(l, n, rate, lag) ==
    (n * 1000 - lag * rate) * l.decay_scale > 2 * l.cutoff * 10 * rate

\* t > cutoff / decay_scale, for t = n / rate seconds less lag ms
PastCutoff(l, n, rate, lag) ==
    (n * 1000 - lag * rate) * l.decay_scale > l.cutoff * 10 * rate

\* an envelope that has no cutoff
EnvLiveNoCutoff(l, n, rate, lag) ==
    /\ n * 1000 > l.onset * rate
    /\ l.gain # 0

\* the envelope node's output at frame n is non-zero, when the control point it
\* interpolates from lies lag ms back: that point is not past the cutoff, the zero of
\* the attack or onset ramp is passed, and the level is non-zero (a stutter envelope
\* is also zero at instants inside its window, which the model does not resolve)
EnvLive(l, n, rate, lag) ==
    /\ ~PastCutoff(l, n, rate, lag)
    /\ n * 1000 > l.onset * rate
    /\ l.gain # 0

\* One frame of a preset graph in state mem at frame n, the lfo control points lying
\* lag ms back.  A sample is described by
\* its gains (in 1/10000) on the dry signal and on the reverberated signal and by
\* whether each of the two is non-zero at this frame.  A low-pass or reverb that has
\* once had non-zero input keeps a non-zero state (its decay to f32 underflow is
\* outside the model); the reverb's output comes from its delay lines.
PresetFrame(unit, mem, n, rate, lag) ==
    LET mono == \E k \in DOMAIN unit.layers : EnvLive(unit.layers[k], n, rate, lag)
        d == IF unit.lowpass = None THEN mono ELSE mono \/ mem.lowpass
        w == unit.mix # None /\ mem.reverb
        s == [dry |-> IF unit.mix = None THEN 10000 ELSE unit.mix[1].dry,
              wet |-> IF unit.mix = None THEN 0 ELSE unit.mix[1].wet,
              d |-> d, w |-> w]
    IN  [frame |-> <<s, s>>,
         mem |-> [lowpass |-> unit.lowpass # None /\ d,
                  reverb |-> unit.mix # None /\ (mem.reverb \/ d)]]

\* the sample is exactly 0
Silent(s) == (s.dry = 0 \/ ~s.d) /\ (s.wet = 0 \/ ~s.w)

\* the latest cutoff of a graph's layer envelopes has passed by more than lag ms at frame n
PastLastCutoff(unit, n, rate, lag) ==
    \A k \in DOMAIN unit.layers : PastCutoff(unit.layers[k], n, rate, lag)

\* frame n lies within TailMs of the last cutoff
WithinTail(unit, n, rate) ==
    \E k \in DOMAIN unit.layers :
        LET l == unit.layers[k]
        IN  n * 1000 * l.decay_scale <= (l.cutoff * 10 + TailMs * l.decay_scale) * rate

\* a preset entity as spawned by the host
Entity(preset, life) == [preset |-> Some(preset), player |-> None, life |-> life, alive |-> TRUE]

\* the build of a preset entity: build_*_graph, ProceduralAudio::new(graph, rate, CHANNELS),
\* insert AudioPlayer(handle)
WithPlayer(e, rate) ==
    [e EXCEPT !.player = Some([graph |-> BuildPresetGraph(e.preset[1]),
                               sample_rate |-> rate, channels |-> CHANNELS])]

\* entity 1's preset graph is built and wrapped in an asset
PresetBuild(rate) ==
    /\ Len(ents) >= 1
    /\ ents[1].alive /\ ents[1].player = None
    /\ ents' = [ents EXCEPT ![1] = WithPlayer(@, rate)]
    /\ UNCHANGED <<cells, paramVars, ecsVars, assetVars, renderVars,
                   tick, delta, inst, out, heard, heart>>

\* the audio sink asks the asset for a decoder
PresetDecoder ==
    /\ Len(ents) >= 1
    /\ ents[1].player # None
    /\ inst = None
    /\ inst' = Some(PresetInstance(ents[1].player[1]))
    /\ UNCHANGED <<cells, paramVars, ecsVars, assetVars, renderVars,
                   ents, tick, delta, out, heard, heart>>

\* the instance produces its next frame
PresetTick ==
    /\ inst # None
    /\ WithinTail(inst[1].unit, inst[1].frame, inst[1].rate)
    /\ \E lag \in {0, LfoSpanMs} :
          LET i == inst[1]
              r == PresetFrame(i.unit, i.mem, i.frame, i.rate, lag)
          IN  /\ out' = Some([n |-> i.frame, frame |-> r.frame])
              /\ inst' = Some([i EXCEPT !.frame = @ + 1, !.mem = r.mem])
              /\ heard' = (heard \/ \E ch \in 1..CHANNELS : ~Silent(r.frame[ch]))
    /\ UNCHANGED <<cells, paramVars, ecsVars, assetVars, renderVars,
                   ents, tick, delta, heart>>

\* the values the host gives the fields of a preset component
IntensityVals == {0, 8000, 15000}
PitchVals == {100, 225}
ReverbMixVals == {0, 5, 10, 11, 1000, 1500, 3000, 10000, 12000}
LowpassVals == {100, 20000}

OneShotKinds == {"SwordSlash", "BluntImpact", "LightningZap", "LightningStrike",
                 "Explosion", "ArcaneAttack"}

PresetConfigs ==
    {c \in [kind : OneShotKinds, intensity : IntensityVals, pitch_shift : PitchVals,
            reverb_mix : ReverbMixVals, lowpass : Opt(LowpassVals)] :
        (c.lowpass # None) <=> (c.kind \in {"Explosion", "ArcaneAttack"})}

NoShotState ==
    /\ tick = 0
    /\ delta = 0
    /\ inst = None
    /\ out = None
    /\ heard = FALSE
    /\ heart = None

PresetInit ==
    /\ cells = <<>>
    /\ ParamIdle
    /\ EcsIdle
    /\ RenderIdle
    /\ ents \in {<<Entity(c, None)>> : c \in PresetConfigs}
    /\ NoShotState

PresetNext ==
    \/ PresetBuild(RenderRate)
    \/ PresetDecoder
    \/ PresetTick

SpecPreset == PresetInit /\ [][PresetNext]_vars

\* the scenario SwordSlash{intensity: 0.8, pitch_shift: 1.0, reverb_mix: 0.0} played at
\* the rate the build systems use
SlashInit ==
    /\ cells = <<>>
    /\ ParamIdle
    /\ EcsIdle
    /\ RenderIdle
    /\ ents = <<Entity([kind |-> "SwordSlash", intensity |-> 8000, pitch_shift |-> 100,
                        reverb_mix |-> 0, lowpass |-> None], None)>>
    /\ NoShotState

SlashNext ==
    \/ PresetBuild(SAMPLE_RATE)
    \/ PresetDecoder
    \/ PresetTick

SpecSlash == SlashInit /\ [][SlashNext]_vars

(***************************************************************************)
(* Claims about the one-shot preset graphs (checked under SpecPreset and   *)
(* SpecSlash).                                                             *)
(***************************************************************************)
\* C15 as claimed: for every one-shot preset and any parameter values, every output
\* sample on both channels is exactly 0 once local time exceeds the latest cutoff of
\* the preset's layer envelopes.
C15_SilentAfterLastCutoff ==
    (out # None /\ PastLastCutoff(inst[1].unit, out[1].n, inst[1].rate, 0)) =>
        \A ch \in 1..CHANNELS : Silent(out[1].frame[ch])

\* C15 as amended: for a one-shot preset built without reverb (reverb_mix <= 0.001)
\* and without an output low-pass, every output sample on both channels is exactly 0
\* once local time exceeds the latest cutoff by more than one lfo control span.
C15_SilentAfterLastCutoffDry ==
    (/\ out # None
     /\ ents[1].preset[1].reverb_mix <= MixThreshold
     /\ ents[1].preset[1].lowpass = None
     /\ PastLastCutoff(inst[1].unit, out[1].n, inst[1].rate, LfoSpanMs)) =>
        \A ch \in 1..CHANNELS : Silent(out[1].frame[ch])

\* C15 witness: a lightning strike without reverb has sounded and is silent at a frame
\* past its last cutoff
C15_Witness ==
    /\ out # None
    /\ ents[1].preset[1].kind = "LightningStrike"
    /\ ents[1].preset[1].reverb_mix = 0
    /\ heard
    /\ PastLastCutoff(inst[1].unit, out[1].n, inst[1].rate, LfoSpanMs)
    /\ \A ch \in 1..CHANNELS : Silent(out[1].frame[ch])

\* index in the decoder's interleaved stream of channel ch (from 0) of frame n
StreamIndex(n, ch) == InterleaveBase(n, CHANNELS) + ch

\* C16 as claimed: the default sword slash played at 44100 Hz stereo yields samples
\* that are all exactly 0 from sample index 52920 onward, and at least one non-zero
\* sample among the first 2205 samples.
C16_SwordSlashScenario ==
    out # None =>
        /\ \A ch \in 1..CHANNELS :
              StreamIndex(out[1].n, ch - 1) >= 52920 => Silent(out[1].frame[ch])
        /\ StreamIndex(out[1].n, CHANNELS - 1) >= 2204 => heard

\* C16 as amended: the samples are all exactly 0 from sample index 106106 onward
\* (the frames later than 1.2 s by more than one lfo control span), and at least one
\* of the first 2205 samples is non-zero.
C16_SwordSlashSilentByFrame ==
    out # None =>
        /\ \A ch \in 1..CHANNELS :
              StreamIndex(out[1].n, ch - 1) >= 106106 => Silent(out[1].frame[ch])
        /\ StreamIndex(out[1].n, CHANNELS - 1) >= 2204 => heard

\* C16 witness: the slash has sounded and the sample at index 106106 is silent
C16_Witness ==
    /\ out # None
    /\ heard
    /\ StreamIndex(out[1].n, 0) = 106106
    /\ Silent(out[1].frame[1])

\* the sample is the sum of the dry signal times dry and the wet signal times wet
\* (gains in 1/10000), the wet signal being the reverb's output
Blend(smp, dry, wet) == smp.dry = dry /\ smp.wet = wet /\ (smp.w => inst[1].unit.mix # None)

\* C17 as claimed: for every reverb_mix in [0,1] every output sample is
\* dry*(1-reverb_mix) + wet*reverb_mix, including values in (0, 0.001].
C17_CrossfadeEverywhere ==
    (out # None /\ ents[1].preset[1].reverb_mix \in 0..10000) =>
        \A ch \in 1..CHANNELS :
            Blend(out[1].frame[ch], 10000 - ents[1].preset[1].reverb_mix,
                  ents[1].preset[1].reverb_mix)

\* C17 as amended: for reverb_mix in (0.001, 1] every output sample is
\* dry*(1-reverb_mix) + wet*reverb_mix, and for reverb_mix in [0, 0.001] it is the
\* dry sample, with no reverb in the graph.
C17_CrossfadeAboveThreshold ==
    (out # None /\ ents[1].preset[1].reverb_mix \in 0..10000) =>
        \A ch \in 1..CHANNELS :
            IF ents[1].preset[1].reverb_mix > MixThreshold
            THEN Blend(out[1].frame[ch], 10000 - ents[1].preset[1].reverb_mix,
                       ents[1].preset[1].reverb_mix)
            ELSE Blend(out[1].frame[ch], 10000, 0) /\ ~out[1].frame[ch].w

\* C17 witness: a preset built with reverb_mix = 0.3 renders a frame in which the dry
\* signal and the reverb's output are both non-zero, mixed 0.7 to 0.3
C17_Witness ==
    /\ out # None
    /\ ents[1].preset[1].reverb_mix = 3000
    /\ out[1].frame[1].d /\ out[1].frame[1].w
    /\ out[1].frame[1].dry = 7000 /\ out[1].frame[1].wet = 3000

\* a preset component with every field moved to the nearest value of its valid range
Confined(c) ==
    [c EXCEPT !.intensity = Clamp(@, 0, 10000),
              !.reverb_mix = Clamp(@, 0, 10000),
              !.lowpass = IF @ = None THEN None ELSE Some(Clamp(@[1], 200, 20000))]

\* C18: building a preset with an out-of-range field has the same effect as building
\* it with the nearest in-range value.
C18_ConfigConfined ==
    \A i \in DOMAIN ents :
        ents[i].player # None =>
            ents[i].player[1].graph = BuildPresetGraph(Confined(ents[i].preset[1]))

(***************************************************************************)
(* One-shot lifetimes.  Times are in whole units of the host's clock;     *)
(* delta is Time::delta_secs() of the last tick.  A despawned entity      *)
(* keeps its record with alive = FALSE, so that what it held when it was   *)
(* despawned stays visible; no query matches it any more.                  *)
(***************************************************************************)
MaxShots == 2
MaxTicks == 2
MaxDt == 2
MaxDuration == 3

OneShotLifetimeNew(duration) == [duration |-> duration, elapsed |-> 0]

\* the entities of kind k a build system's Added<T> query yields
Added(k) == {i \in DOMAIN ents : ents[i].alive /\ ents[i].preset[1].kind = k
                                 /\ ents[i].player = None}

\* a build system that inserts the player only, for the preset kind k
BuildPlayers(k) ==
    /\ Added(k) # {}
    /\ ents' = [i \in DOMAIN ents |->
                   IF i \in Added(k) THEN WithPlayer(ents[i], SAMPLE_RATE) ELSE ents[i]]
    /\ UNCHANGED <<cells, paramVars, ecsVars, assetVars, renderVars,
                   tick, delta, inst, out, heard, heart>>

\* a build system that inserts the player and a lifetime of d, for the preset kind k
BuildPlayersWithLifetime(k, d) ==
    /\ Added(k) # {}
    /\ ents' = [i \in DOMAIN ents |->
                   IF i \in Added(k)
                   THEN [WithPlayer(ents[i], SAMPLE_RATE) EXCEPT
                            !.life = Some(OneShotLifetimeNew(d))]
                   ELSE ents[i]]
    /\ UNCHANGED <<cells, paramVars, ecsVars, assetVars, renderVars,
                   tick, delta, inst, out, heard, heart>>

sword_slash_build_system == BuildPlayers("SwordSlash")

blunt_impact_build_system == BuildPlayers("BluntImpact")

lightning_zap_build_system == \E d \in 1..MaxDuration : BuildPlayersWithLifetime("LightningZap", d)

lightning_strike_build_system ==
    \E d \in 1..MaxDuration : BuildPlayersWithLifetime("LightningStrike", d)

\* a lifetime that is over only once elapsed exceeds the duration
ExpiredStrict(l) == l.elapsed > l.duration

\* lifetime.elapsed >= lifetime.duration
Expired(l) == l.elapsed >= l.duration

\* the significand of the model's floating-point numbers, in bits (f32 has 24): whole
\* numbers up to 2^MantBits are exact, larger ones are rounded to MantBits leading bits
MantBits == 4

RECURSIVE Pow2(_)
Pow2(n) == IF n = 0 THEN 1 ELSE 2 * Pow2(n - 1)

\* the spacing of the floating-point numbers around x >= 0
RECURSIVE Ulp(_)
Ulp(x) == IF x < Pow2(MantBits) THEN 1 ELSE 2 * Ulp(x \div 2)

\* x >= 0 rounded to the nearest floating-point number, ties to the even significand
RoundF(x) ==
    LET u == Ulp(x)
        q == x \div u
        r == x % u
    IN  IF 2 * r < u \/ (2 * r = u /\ q % 2 = 0) THEN q * u ELSE (q + 1) * u

\* a pass that adds the delta and issues no despawn
AgedWithoutDespawn(e, dt) ==
    [e EXCEPT !.life = Some([e.life[1] EXCEPT !.elapsed = RoundF(@ + dt)])]

\* one entity's pass through the loop of oneshot_lifetime_system, the despawn applied:
\* lifetime.elapsed += dt is a floating-point addition
Aged(e, dt) ==
    LET l == [e.life[1] EXCEPT !.elapsed = RoundF(@ + dt)]
    IN  [e EXCEPT !.life = Some(l), !.alive = ~Expired(l)]

oneshot_lifetime_system(dt) ==
    /\ tick < MaxTicks
    /\ tick' = tick + 1
    /\ delta' = dt
    /\ ents' = [i \in DOMAIN ents |->
                   IF ents[i].alive /\ ents[i].life # None THEN Aged(ents[i], dt) ELSE ents[i]]
    /\ UNCHANGED <<cells, paramVars, ecsVars, assetVars, renderVars,
                   inst, out, heard, heart>>

LifeKinds == {"SwordSlash", "BluntImpact", "LightningZap", "LightningStrike"}

\* the entities the host spawns: a preset at its defaults, and for the presets whose
\* build system inserts no lifetime, possibly one the host inserted itself
LifeEntities ==
    {Entity(PresetDefault(k), None) : k \in LifeKinds}
    \cup {Entity(PresetDefault(k), Some(OneShotLifetimeNew(MaxDuration))) :
             k \in {"SwordSlash", "BluntImpact"}}

LifeInit ==
    /\ cells = <<>>
    /\ ParamIdle
    /\ EcsIdle
    /\ RenderIdle
    /\ ents \in [1..MaxShots -> LifeEntities]
    /\ NoShotState

LifeNext ==
    \/ sword_slash_build_system
    \/ blunt_impact_build_system
    \/ lightning_zap_build_system
    \/ lightning_strike_build_system
    \/ \E dt \in 0..MaxDt : oneshot_lifetime_system(dt)

SpecLife == LifeInit /\ [][LifeNext]_vars

C14_BuiltHasLifetime ==
    \A i \in DOMAIN ents : ents[i].player # None => ents[i].life # None

(***************************************************************************)
(* presets/heartbeat.rs.  Times are in ms and heart rates in beats per    *)
(* minute, so t / beat_period is t * bpm / MinuteMs; phases are kept as   *)
(* their numerator over MinuteMs and local times as local ms times bpm.   *)
(* intensity and arrhythmia are in thousandths.  Each sine of the jitter   *)
(* is taken at its extremes: 0 or 1 within its first half period, where    *)
(* it cannot be negative, and -1 or 1 after it.  The arithmetic is exact   *)
(* where the code's is f32.                                                *)
(***************************************************************************)
MaxHeartMs == 2400
HeartStepMs == 25

MinuteMs == 60000
MinBpm == 30
MaxBpm == 220
\* 0.33 of a cycle, over MinuteMs
S2Phase == 19800
\* arr * 0.4 of a cycle, over MinuteMs, for arr in thousandths
JitterSpan == 24

\* the jitter's sines: frequency in hundredths of Hz and weight in tenths
JitterSines == <<[f |-> 37, w |-> 5], [f |-> 83, w |-> 3], [f |-> 171, w |-> 2]>>

\* the values sin(tau * f * t) can take at time t ms, at its extremes
SineRange(f, t) == IF 2 * f * t <= 100000 THEN {0, 1} ELSE {-1, 1}

\* the values the weighted sum of the three sines can take at time t, in tenths
SineSums(t) ==
    {JitterSines[1].w * a + JitterSines[2].w * b + JitterSines[3].w * c :
        a \in SineRange(JitterSines[1].f, t),
        b \in SineRange(JitterSines[2].f, t),
        c \in SineRange(JitterSines[3].f, t)}

Heartbeat(rate, arr, int) ==
    [kind |-> "Heartbeat", heart_rate |-> rate, arrhythmic_strength |-> arr, intensity |-> int]

HeartbeatDefault == Heartbeat(72, 0, 500)

\* build_heartbeat_graph: the three handles, whose cells the lfo closure shares
BuildHeartbeatGraph(cs, hb) ==
    LET c1 == SharedNew(cs, hb.heart_rate)
        c2 == SharedNew(c1, hb.intensity)
        c3 == SharedNew(c2, hb.arrhythmic_strength)
    IN  [cells |-> c3,
         params |-> [rate |-> ParamHandleNew(Len(cs) + 1, MinBpm, MaxBpm),
                     intensity |-> ParamHandleNew(Len(cs) + 2, 0, 1000),
                     arrhythmia |-> ParamHandleNew(Len(cs) + 3, 0, 1000)]]

\* a wrap into [0, 1): x - floor(x)
FractFloor(x) == x % MinuteMs

\* f32::fract of x / MinuteMs, times MinuteMs: x - trunc(x), which keeps the sign of x
FractNum(x) == IF x >= 0 THEN x % MinuteMs ELSE 0 - ((0 - x) % MinuteMs)

\* heart_sound is not cut off by its early return: local_t >= 0
HeartSoundOn(local_t) == local_t >= 0

\* an S2 that sits half a cycle after S1
S2LocalTimeHalf(phase) == phase - MinuteMs \div 2

\* s2_t = (phase - 0.33) * beat_period
S2LocalTime(phase) == phase - S2Phase

\* the lfo closure at time t, the jitter's sum of sines being s tenths
HeartbeatLfo(cs, ps, t, s) ==
    LET bpm == Max2(ParamGet(cs, ps.rate), MinBpm)
        arr == ParamGet(cs, ps.arrhythmia)
        phase_jitter == (arr * JitterSpan * s) \div 10
        phase == FractNum(t * bpm + phase_jitter)
        s1_t == phase
        s2_t == S2LocalTime(phase)
    IN  [t |-> t, rate |-> ParamGet(cs, ps.rate), arr |-> arr,
         phase_jitter |-> phase_jitter, sum |-> t * bpm + phase_jitter, phase |-> phase,
         s1_t |-> s1_t, s1 |-> HeartSoundOn(s1_t),
         s2_t |-> s2_t, s2 |-> HeartSoundOn(s2_t),
         level |-> ParamGet(cs, ps.intensity)]

heartbeat_build_system ==
    /\ ents[1].player = None
    /\ LET r == BuildHeartbeatGraph(cells, ents[1].preset[1])
       IN  /\ cells' = r.cells
           /\ heart' = [heart EXCEPT !.params = Some(r.params)]
    /\ ents' = [ents EXCEPT ![1].player =
                   Some([graph |-> "heartbeat", sample_rate |-> SAMPLE_RATE,
                         channels |-> CHANNELS])]
    /\ UNCHANGED <<paramVars, ecsVars, assetVars, renderVars, tick, delta, inst, out, heard>>

\* the host writes the Heartbeat component
HeartbeatMutate(hb) ==
    /\ muts < MaxMutations
    /\ ents[1].preset # Some(hb)
    /\ ents' = [ents EXCEPT ![1].preset = Some(hb)]
    /\ heart' = [heart EXCEPT !.changed = TRUE]
    /\ muts' = muts + 1
    /\ UNCHANGED <<cells, paramVars, comp, changed, synth, syncs, buildLog, assetVars,
                   renderVars, tick, delta, inst, out, heard>>

\* heartbeat_sync_system: Changed<Heartbeat>, on an entity that carries HeartbeatParams
heartbeat_sync_system ==
    /\ heart.changed
    /\ heart' = [heart EXCEPT !.changed = FALSE]
    /\ cells' = IF heart.params = None THEN cells
                ELSE LET ps == heart.params[1]
                         hb == ents[1].preset[1]
                     IN  ParamSet(ParamSet(ParamSet(cells, ps.rate, hb.heart_rate),
                                           ps.intensity, hb.intensity),
                                  ps.arrhythmia, hb.arrhythmic_strength)
    /\ UNCHANGED <<paramVars, ecsVars, assetVars, renderVars,
                   ents, tick, delta, inst, out, heard>>

\* the graph's lfo evaluates its closure at the next time
HeartbeatTick ==
    /\ heart.params # None
    /\ heart.t <= MaxHeartMs
    /\ \E s \in SineSums(heart.t) :
          heart' = [heart EXCEPT
                       !.eval = Some(HeartbeatLfo(cells, heart.params[1], heart.t, s)),
                       !.t = @ + HeartStepMs]
    /\ UNCHANGED <<cells, paramVars, ecsVars, assetVars, renderVars,
                   ents, tick, delta, inst, out, heard>>

\* the values the host gives the Heartbeat component
HeartRateVals == {10, 72, MaxBpm}
ArrhythmiaVals == {0, 1000, 5000}
HeartbeatVals == {Heartbeat(r, a, 500) : r \in HeartRateVals, a \in ArrhythmiaVals}

HeartInit ==
    /\ cells = <<>>
    /\ ParamIdle
    /\ EcsIdle
    /\ RenderIdle
    /\ ents \in {<<Entity(hb, None)>> : hb \in HeartbeatVals}
    /\ tick = 0
    /\ delta = 0
    /\ inst = None
    /\ out = None
    /\ heard = FALSE
    /\ heart = [params |-> None, changed |-> TRUE, t |-> 0, eval |-> None]

HeartNext ==
    \/ heartbeat_build_system
    \/ \E hb \in HeartbeatVals : HeartbeatMutate(hb)
    \/ heartbeat_sync_system
    \/ HeartbeatTick

SpecHeart == HeartInit /\ [][HeartNext]_vars

\* the whole cycles a run can hold
Cycles == 0..((MaxHeartMs + HeartStepMs) * MaxBpm) \div MinuteMs

\* an evaluation made with no arrhythmia and a heart rate in range
Regular(e) == e.arr = 0 /\ e.rate \in MinBpm..MaxBpm

\* C19: with arrhythmic_strength = 0 and a constant heart_rate in [30,220], the S1
\* burst's local time is the time since the latest multiple of 60/heart_rate seconds,
\* so that it restarts exactly at the successive multiples; the S2 burst is silent
\* before 0.33 of a cycle has passed since that multiple and its local time runs from
\* that point.
C19_BeatTiming ==
    /\ [](heart.eval # None /\ Regular(heart.eval[1]) =>
            LET e == heart.eval[1]
            IN  \A k \in Cycles :
                   (k * MinuteMs <= e.t * e.rate /\ e.t * e.rate < (k + 1) * MinuteMs) =>
                       /\ e.s1
                       /\ e.s1_t = e.t * e.rate - k * MinuteMs
                       /\ e.s2 <=> e.t * e.rate - k * MinuteMs >= S2Phase
                       /\ e.s2 => e.s2_t = e.t * e.rate - k * MinuteMs - S2Phase)
    /\ [][(/\ heart.eval # None /\ heart'.eval # None /\ heart'.t # heart.t
           /\ Regular(heart.eval[1]) /\ Regular(heart'.eval[1])
           /\ heart.eval[1].rate = heart'.eval[1].rate) =>
             LET a == heart.eval[1]
                 b == heart'.eval[1]
             IN  (b.s1_t # a.s1_t + (b.t - a.t) * a.rate) <=>
                    \E k \in Cycles : a.t * a.rate < k * MinuteMs /\ k * MinuteMs <= b.t * a.rate]_vars

\* C19 witness: at the default 72 beats per minute and no arrhythmia, the S2 burst has
\* just started in a cycle after the first, S1 having restarted at the cycle's start
C19_Witness ==
    /\ heart.eval # None
    /\ Regular(heart.eval[1])
    /\ heart.eval[1].rate = 72
    /\ heart.eval[1].t * 72 >= MinuteMs + S2Phase
    /\ heart.eval[1].s2
    /\ heart.eval[1].s2_t < HeartStepMs * 72
    /\ heart.eval[1].s1_t < MinuteMs

(***************************************************************************)
(* dsp/source.rs for any channel count: ProceduralAudio::new takes the     *)
(* channel count as an argument, and the decoder is written for any        *)
(* count, so the decoders of an asset of 1..MaxChannels channels are       *)
(* followed here, no parameter being written meanwhile.                    *)
(***************************************************************************)
MaxChannels == 2

DecodeInit ==
    /\ ParamIdle
    /\ comp = Some(RenderSpawn)
    /\ changed = {}
    /\ muts = 0
    /\ syncs = 0
    /\ LET r == BuildSynthGraph(<<>>, "Sine", 880, 5, None, None, None, None, None, None)
       IN  /\ cells = r.cells
           /\ synth = Some([params |-> r.params, graph |-> r.graph])
           /\ buildLog = Some([comp |-> RenderSpawn, cells |-> r.cells])
           /\ graphs = <<ProceduralAudioNew(r.graph, SAMPLE_RATE)>>
           /\ \E ch \in 1..MaxChannels :
                 asset = Some([graph |-> 1, sample_rate |-> SAMPLE_RATE, channels |-> ch])
    /\ mutex = 0
    /\ calls = [c \in Callers |-> [pc |-> "start", cloned |-> 0, acq |-> 0]]
    /\ dec = [c \in Callers |-> None]
    /\ pulled = [c \in Callers |-> 0]
    /\ last = [c \in Callers |-> None]
    /\ rendered = [c \in Callers |-> <<>>]
    /\ fillLog = [c \in Callers |-> None]
    /\ renders = 0
    /\ ShotIdle

DecodeNext ==
    \/ \E c \in Callers : DecoderLock(c)
    \/ \E c \in Callers : DecoderClone(c)
    \/ \E c \in Callers : DecoderReturn(c)
    \/ \E c \in Callers : NextServe(c)
    \/ \E c \in Callers : NextFillStart(c)
    \/ \E c \in Callers : NextFillProcess(c)

SpecDecode == DecodeInit /\ [][DecodeNext]_vars

\* C26: every graph instance has had set_sample_rate and allocate called on it before
\* any process call on it (the canonical graph in ProceduralAudio::new, each clone in
\* decoder()), and a decoder's interleave buffer has its full length
\* MAX_BUFFER_SIZE * channels from creation, so that the resize in fill_block leaves
\* it as it is.
C26_ReservedBeforeRender ==
    /\ \A g \in DOMAIN graphs : graphs[g].allocated /\ graphs[g].sr = asset[1].sample_rate
    /\ \A c \in Callers :
          dec[c] # None =>
             /\ graphs[dec[c][1].graph].allocated
             /\ Len(dec[c][1].buffer) = MAX_BUFFER_SIZE * dec[c][1].channels
             /\ Resize(dec[c][1].buffer, MAX_BUFFER_SIZE * dec[c][1].channels) = dec[c][1].buffer

\* C26 witness: a clone has rendered two blocks, the second fill's resize included
C26_Witness ==
    \E c \in Callers :
        /\ dec[c] # None
        /\ Len(rendered[c]) = 2
        /\ graphs[dec[c][1].graph].t = 2 * MAX_BUFFER_SIZE
        /\ dec[c][1].graph # asset[1].graph

\* Source::current_frame_len of a decoder with a frame that ends with its block
CurrentFrameLenBlock(d) == Some(d.total - d.pos)

\* Source::current_frame_len
CurrentFrameLen(d) == None

\* Source::total_duration
TotalDuration(d) == None

\* C29: for every decoder and after any number of pulls, next() has returned
\* Some(sample); current_frame_len and total_duration report None; a decoder is
\* either ready to serve or inside fill_block, with no end-of-stream state.
C29_EndlessStream ==
    \A c \in Callers :
        dec[c] # None =>
           /\ pulled[c] > 0 => last[c] # None
           /\ dec[c][1].pc \in {"ready", "fill"}
           /\ CurrentFrameLen(dec[c][1]) = None
           /\ TotalDuration(dec[c][1]) = None

\* C29 witness: a decoder has been pulled past the end of its first block
C29_Witness ==
    \E c \in Callers :
        /\ dec[c] # None
        /\ pulled[c] > MAX_BUFFER_SIZE * dec[c][1].channels
        /\ last[c] # None
        /\ Len(rendered[c]) = 2

\* the buffer indices fill_block writes for ch channels
WriteIndices(ch) ==
    {InterleaveBase(i, ch) : i \in 0..(MAX_BUFFER_SIZE - 1)}
    \cup (IF ch >= 2 THEN {InterleaveBase(i, ch) + 1 : i \in 0..(MAX_BUFFER_SIZE - 1)} ELSE {})

\* C30: for a decoder with channels >= 1, total = buffer.len() =
\* MAX_BUFFER_SIZE * channels and 0 <= pos <= total at all times; the index next()
\* read last (pos - 1) is below total; every index fill_block writes is below
\* buffer.len().
C30_DecoderIndices ==
    \A c \in Callers :
        (dec[c] # None /\ dec[c][1].channels >= 1) =>
           LET d == dec[c][1]
           IN  /\ d.total = Len(d.buffer)
               /\ d.total = MAX_BUFFER_SIZE * d.channels
               /\ 0 <= d.pos /\ d.pos <= d.total
               /\ pulled[c] > 0 => (d.pos >= 1 /\ d.pos - 1 < d.total)
               /\ d.pc = "fill" => d.pos >= d.total
               /\ \A k \in WriteIndices(d.channels) : k < Len(d.buffer)

\* C30 witness: a decoder of a single channel has served a whole block and refilled
C30_Witness ==
    \E c \in Callers :
        /\ dec[c] # None
        /\ dec[c][1].channels = 1
        /\ Len(rendered[c]) = 2
        /\ dec[c][1].pos = 1
        /\ pulled[c] = MAX_BUFFER_SIZE + 1

\* an evaluation made with an arrhythmia value in [0,1]
ArrhythmiaInRange(e) == 0 <= e.arr /\ e.arr <= 1000

\* the phase of an evaluation lies in [0,1)
PhaseWrapped(e) == 0 <= e.phase /\ e.phase < MinuteMs

EarRinging(int) == [kind |-> "EarRinging", intensity |-> int]

EarRingingDefault == EarRinging(300)

\* the six tones of the source, in the order written
EarTones == <<400000, 401500, 520000, 523000, 680000, 679000>>

EarEntity(er) ==
    [preset |-> Some(er), player |-> None, life |-> None, alive |-> TRUE,
     params |-> None, changed |-> TRUE]

\* build_ear_ringing_graph: the intensity handle, and the graph
\* ((tones * dc(1/6) * var(intensity)) * amp_mod) >> split, times the two pan gains
BuildEarRingingGraph(cs, er) ==
    LET tones == SineSumSource(EarTones)
    IN  [cells |-> SharedNew(cs, er.intensity),
         params |-> [intensity |-> ParamHandleNew(Len(cs) + 1, 0, 1000)],
         graph |-> [tones |-> tones.signal, divisor |-> 6, gain |-> Len(cs) + 1,
                    amp_mod |-> "lfo", pan |-> <<"lfo", "lfo">>,
                    ins |-> tones.ins, outs |-> 2]]

EarRingingAdded == {i \in DOMAIN ents : ents[i].alive /\ ents[i].preset[1].kind = "EarRinging"
                                        /\ ents[i].player = None}

\* ear_ringing_build_system: Added<EarRinging>; inserts the player and EarRingingParams
ear_ringing_build_system ==
    /\ EarRingingAdded # {}
    /\ LET i == CHOOSE k \in EarRingingAdded : \A m \in EarRingingAdded : k <= m
           r == BuildEarRingingGraph(cells, ents[i].preset[1])
       IN  /\ cells' = r.cells
           /\ ents' = [ents EXCEPT ![i].player = Some([graph |-> r.graph,
                                                        sample_rate |-> SAMPLE_RATE,
                                                        channels |-> CHANNELS]),
                                   ![i].params = Some(r.params)]
    /\ UNCHANGED <<paramVars, ecsVars, assetVars, renderVars,
                   tick, delta, inst, out, heard, heart>>

\* the BluntImpact components the host spawns
BluntImpactVals ==
    {PresetDefault("BluntImpact"),
     [PresetDefault("BluntImpact") EXCEPT !.pitch_shift = 150, !.reverb_mix = 3000]}

\* the Synth entities spawned: every combination of oscillator, filters, distortion
\* and reverb, with the default frequency and amplitude
WireValues == {c \in SpawnValues : c.freq = None /\ c.amp = None /\ c.delay = None}

WireInit ==
    /\ cells = <<>>
    /\ ParamIdle
    /\ comp \in {Some(c) : c \in WireValues}
    /\ changed = {}
    /\ synth = None
    /\ muts = 0
    /\ syncs = 0
    /\ buildLog = None
    /\ graphs = <<>>
    /\ asset = None
    /\ RenderIdle
    /\ ents \in {<<Entity(bi, None), EarEntity(EarRingingDefault)>> : bi \in BluntImpactVals}
    /\ tick = 0
    /\ delta = 0
    /\ inst = None
    /\ out = None
    /\ heard = FALSE
    /\ heart = None

WireNext ==
    \/ GraphBuildSystem
    \/ blunt_impact_build_system
    \/ ear_ringing_build_system

SpecWire == WireInit /\ [][WireNext]_vars

\* the node of a Net with the given kind
NodeOfKind(net, kind) == net.nodes[CHOOSE i \in DOMAIN net.nodes : net.nodes[i].kind = kind]

\* C24: the ear-ringing tone source is the sum of six independent sines at 4000, 4015,
\* 5200, 5230, 6800 and 6790 Hz, each driven only by its own constant frequency, scaled
\* by 1/6 and by the live intensity; the blunt-impact thud and clang sources are likewise
\* sums of two and of four independent sines
C24_SumOfIndependentSines ==
    \A i \in DOMAIN ents :
        ents[i].player # None =>
            LET g == ents[i].player[1].graph
                c == ents[i].preset[1]
            IN  /\ c.kind = "EarRinging" =>
                    /\ g.tones = SumOfSines(EarTones)
                    /\ g.divisor = 6
                    /\ g.gain = ents[i].params[1].intensity.inner
                /\ c.kind = "BluntImpact" =>
                    /\ NodeOfKind(g.net, "thud_src").konst[1]
                           = SumOfSines(<<45 * c.pitch_shift, 90 * c.pitch_shift>>)
                    /\ NodeOfKind(g.net, "clang_src").konst[1]
                           = SumOfSines(<<780 * c.pitch_shift, 1850 * c.pitch_shift,
                                          3100 * c.pitch_shift, 4700 * c.pitch_shift>>)

\* the node connected to input port p of node d
Feeder(net, d, p) == (CHOOSE e \in net.edges : e.dst = d /\ e.dport = p).src

\* the nodes the signal passes on its way to node n, following first inputs
RECURSIVE Chain(_, _)
Chain(net, n) ==
    IF \E e \in net.edges : e.dst = n /\ e.dport = 0
    THEN Append(Chain(net, Feeder(net, n, 0)), n)
    ELSE <<n>>

\* the node connected to both graph outputs
OutputNode(net) == (CHOOSE o \in net.outputs : o.out = 0).src

\* the stages build_synth_graph is to wire for the components c, in order
ExpectedStages(c) ==
    LET osc == UnwrapOr(c.osc, DefaultOsc)
        choice == FilterChoice(c.lp, c.hp, c.bp)
    IN  <<IF osc = "Noise" THEN "noise" ELSE osc>>
            \o (CASE choice = "lowpass" -> <<"moog">>
                  [] choice = "highpass" -> <<"highpole_hz">>
                  [] choice = "bandpass" -> <<"bandpass">>
                  [] OTHER -> <<>>)
            \o (IF c.dist = None THEN <<>> ELSE <<"distortion">>)
            \o <<"mul", "split">>

\* C22: in every graph returned by build_synth_graph the stages are wired in the order
\* oscillator, optional filter, optional distortion, amplitude multiply, stereo split,
\* optional reverb; the amplitude stage is a two-input multiply whose second input is
\* the live amplitude handle, and it is present for every configuration
C22_StageOrder ==
    synth # None =>
        LET c == buildLog[1].comp
            g == synth[1].graph
            net == g.net
            chain == Chain(net, OutputNode(net))
            mul == chain[Len(chain) - 1]
            amp == net.nodes[Feeder(net, mul, 1)]
        IN  /\ [k \in DOMAIN chain |-> net.nodes[chain[k]].kind] = ExpectedStages(c)
            /\ net.outputs = {[src |-> chain[Len(chain)], sport |-> o, out |-> o] : o \in {0, 1}}
            /\ net.nodes[mul].kind = "mul" /\ net.nodes[mul].ins = 2
            /\ amp.kind = "var" /\ amp.reads = {synth[1].params.amplitude.inner}
            /\ (g.reverb # None) <=> (c.reverb # None)

\* a graph with low-pass, distortion and reverb has been built
C22_Witness ==
    /\ synth # None
    /\ buildLog[1].comp.lp # None
    /\ buildLog[1].comp.dist # None
    /\ buildLog[1].comp.reverb # None
    /\ Len(Chain(synth[1].graph.net, OutputNode(synth[1].graph.net))) = 5

\* a Net built without a wiring error: no connect call was refused, every input port
\* of every node was named by exactly one connect call, and both outputs are connected
WellWired(net) ==
    /\ ~net.error
    /\ \A n \in DOMAIN net.nodes : \A p \in 0..(net.nodes[n].ins - 1) :
           Cardinality({k \in DOMAIN net.log : net.log[k] = [dst |-> n, dport |-> p]}) = 1
    /\ \A e \in net.edges : e.src < e.dst
    /\ {o.out : o \in net.outputs} = {0, 1}

\* inputs and outputs of the returned graph: the Net, or the Net piped into (and, for
\* the blunt impact, also summed with) a reverb2_stereo
GraphArity(net, reverb) ==
    [ins |-> net.ins, outs |-> IF reverb THEN (IF net.outs = 2 THEN 2 ELSE 0 - 1) ELSE net.outs]

\* C23: build_synth_graph, for every combination of oscillator, filter, distortion and
\* reverb, and build_blunt_impact_graph wire their Net without error: every connect
\* names a pushed node and a port within its arity, every input port is connected
\* exactly once, and the graph has 0 inputs and 2 outputs
C23_NoWiringError ==
    /\ synth # None =>
           /\ WellWired(synth[1].graph.net)
           /\ GraphArity(synth[1].graph.net, synth[1].graph.reverb # None)
                  = [ins |-> 0, outs |-> 2]
    /\ \A i \in DOMAIN ents :
           (ents[i].player # None /\ ents[i].preset[1].kind = "BluntImpact") =>
               /\ WellWired(ents[i].player[1].graph.net)
               /\ GraphArity(ents[i].player[1].graph.net,
                             ents[i].preset[1].reverb_mix > MixThreshold)
                      = [ins |-> 0, outs |-> 2]

\* a synth graph with a three-input filter and a distortion, and a blunt impact with
\* reverb, have been built
C23_Witness ==
    /\ synth # None
    /\ buildLog[1].comp.bp # None /\ buildLog[1].comp.lp = None /\ buildLog[1].comp.hp = None
    /\ buildLog[1].comp.dist # None
    /\ Len(synth[1].graph.net.log) = 7
    /\ ents[1].player # None
    /\ ents[1].preset[1].reverb_mix > MixThreshold
    /\ Len(ents[1].player[1].graph.net.log) = 10

(***************************************************************************)
(* The three sync systems together (systems/sync.rs), on one Synth entity, *)
(* one Heartbeat entity and one EarRinging entity (SpecSync).  A sync      *)
(* system's run ends the Changed<_> state of the components it queries,    *)
(* whether or not the entity carried the handle bundle.                    *)
(***************************************************************************)
EarRingingIds == {i \in DOMAIN ents : ents[i].alive /\ ents[i].preset[1].kind = "EarRinging"}

\* the host writes the EarRinging component of entity i
EarRingingMutate(i, er) ==
    /\ muts < MaxMutations
    /\ i \in EarRingingIds
    /\ ents[i].preset # Some(er)
    /\ ents' = [ents EXCEPT ![i].preset = Some(er), ![i].changed = TRUE]
    /\ muts' = muts + 1
    /\ UNCHANGED <<cells, paramVars, comp, changed, synth, syncs, buildLog, assetVars,
                   renderVars, tick, delta, inst, out, heard, heart>>

\* a push that stores the field as it is
EarRingingSyncRaw(cs, er, ps) == [cs EXCEPT ![ps.intensity.inner] = er.intensity]

\* params.intensity.set(er.intensity)
EarRingingSync(cs, er, ps) == ParamSet(cs, ps.intensity, er.intensity)

\* the cells after the pushes for the ear-ringing entities in todo
RECURSIVE EarRingingSyncAll(_, _)
EarRingingSyncAll(cs, todo) ==
    IF todo = {} THEN cs
    ELSE LET i == CHOOSE k \in todo : \A m \in todo : k <= m
         IN  EarRingingSyncAll(EarRingingSync(cs, ents[i].preset[1], ents[i].params[1]),
                               todo \ {i})

\* ear_ringing_sync_system: Query<(&EarRinging, &EarRingingParams), Changed<EarRinging>>
ear_ringing_sync_system ==
    /\ \E i \in EarRingingIds : ents[i].changed
    /\ cells' = EarRingingSyncAll(cells, {i \in EarRingingIds :
                                             ents[i].changed /\ ents[i].params # None})
    /\ ents' = [i \in DOMAIN ents |->
                   IF i \in EarRingingIds THEN [ents[i] EXCEPT !.changed = FALSE] ELSE ents[i]]
    /\ UNCHANGED <<paramVars, ecsVars, assetVars, renderVars,
                   tick, delta, inst, out, heard, heart>>

\* the values the host gives the EarRinging component
EarRingingVals == {EarRingingDefault, EarRinging(1500)}

\* the Synth entity of SpecSync
SyncSpawn ==
    [osc |-> Some("Sine"), freq |-> Some(880), amp |-> Some(5), lp |-> None, hp |-> None,
     bp |-> None, reverb |-> None, delay |-> None, dist |-> None]

SyncInit ==
    /\ cells = <<>>
    /\ ParamIdle
    /\ comp = Some(SyncSpawn)
    /\ changed = {"freq", "amp"}
    /\ synth = None
    /\ muts = 0
    /\ syncs = 0
    /\ buildLog = None
    /\ graphs = <<>>
    /\ asset = None
    /\ RenderIdle
    /\ ents = <<Entity(HeartbeatDefault, None), EarEntity(EarRingingDefault)>>
    /\ tick = 0
    /\ delta = 0
    /\ inst = None
    /\ out = None
    /\ heard = FALSE
    /\ heart = [params |-> None, changed |-> TRUE, t |-> 0, eval |-> None]

SyncNext ==
    \/ GraphBuildSystem
    \/ heartbeat_build_system
    \/ ear_ringing_build_system
    \/ \E v \in FreqVals : Mutate("freq", v)
    \/ \E v \in AmpVals : Mutate("amp", v)
    \/ \E hb \in HeartbeatVals : HeartbeatMutate(hb)
    \/ \E i \in DOMAIN ents, er \in EarRingingVals : EarRingingMutate(i, er)
    \/ ParamSyncSystem
    \/ heartbeat_sync_system
    \/ ear_ringing_sync_system

SpecSync == SyncInit /\ [][SyncNext]_vars

\* the value of a handle's cell before and after the step
Held(h) == cells[h.inner]
HeldNext(h) == cells'[h.inner]

\* C21: after a sync of a changed component on an entity that carries its handle bundle
\* each corresponding handle holds the clamped field (Synth: frequency in [20,20000],
\* amplitude in [0,1]; Heartbeat: rate in [30,220], intensity and arrhythmia in [0,1];
\* EarRinging: intensity in [0,1]); handles of components that did not change are left
\* as they were
C21_SyncPushesClamped ==
    [][/\ synth # None =>
            LET ps == synth[1].params
                ran == changed # {} /\ changed' = {}
            IN  /\ (ran /\ "freq" \in changed) =>
                        HeldNext(ps.frequency) = Clamp(comp[1].freq[1], 20, 20000)
                /\ (ran /\ "amp" \in changed) =>
                        HeldNext(ps.amplitude) = Clamp(comp[1].amp[1], 0, 10)
                /\ "freq" \notin changed => HeldNext(ps.frequency) = Held(ps.frequency)
                /\ "amp" \notin changed => HeldNext(ps.amplitude) = Held(ps.amplitude)
       /\ (heart # None /\ heart.params # None) =>
            LET ps == heart.params[1]
                hb == ents[1].preset[1]
            IN  /\ (heart.changed /\ ~heart'.changed) =>
                        /\ HeldNext(ps.rate) = Clamp(hb.heart_rate, 30, 220)
                        /\ HeldNext(ps.intensity) = Clamp(hb.intensity, 0, 1000)
                        /\ HeldNext(ps.arrhythmia) = Clamp(hb.arrhythmic_strength, 0, 1000)
                /\ ~heart.changed =>
                        /\ HeldNext(ps.rate) = Held(ps.rate)
                        /\ HeldNext(ps.intensity) = Held(ps.intensity)
                        /\ HeldNext(ps.arrhythmia) = Held(ps.arrhythmia)
       /\ \A i \in EarRingingIds :
            ents[i].params # None =>
                LET ps == ents[i].params[1]
                IN  /\ (ents[i].changed /\ ~ents'[i].changed) =>
                            HeldNext(ps.intensity) = Clamp(ents[i].preset[1].intensity, 0, 1000)
                    /\ ~ents[i].changed => HeldNext(ps.intensity) = Held(ps.intensity)
      ]_vars

\* every entity carries its bundle and has been synced; the ear-ringing intensity was
\* written out of range and its handle holds the upper bound, the others hold theirs
C21_Witness ==
    /\ synth # None /\ changed = {}
    /\ cells[synth[1].params.frequency.inner] = comp[1].freq[1]
    /\ heart.params # None /\ ~heart.changed
    /\ ents[2].params # None /\ ~ents[2].changed
    /\ ents[2].preset[1].intensity = 1500
    /\ cells[ents[2].params[1].intensity.inner] = 1000

(***************************************************************************)
(* Playback teardown (audio_cleanup_system, systems/lifecycle.rs), on a    *)
(* world of several audio entities (SpecTeardown).  An entity here also    *)
(* records whether its build system has still to see it (added) and the    *)
(* RemovedComponents events pending for it (removed).  Removing a          *)
(* component and despawning the entity both raise the event.               *)
(***************************************************************************)
MaxAudioEntities == 2

TeardownKinds == {"Synth", "Heartbeat", "EarRinging", "SwordSlash"}

\* the component an entity of each kind is spawned with
AudioComponent(kind) ==
    CASE kind = "Synth" -> [kind |-> "Synth"]
      [] kind = "Heartbeat" -> HeartbeatDefault
      [] kind = "EarRinging" -> EarRingingDefault
      [] kind = "SwordSlash" -> PresetDefault("SwordSlash")

\* the handle bundle the build system of each kind inserts
ParamsOf(kind) ==
    CASE kind = "Synth" -> "SynthParams"
      [] kind = "Heartbeat" -> "HeartbeatParams"
      [] kind = "EarRinging" -> "EarRingingParams"
      [] OTHER -> "none"

AudioEntity(kind) ==
    [preset |-> Some(AudioComponent(kind)), player |-> None, life |-> None, alive |-> TRUE,
     params |-> None, changed |-> TRUE, added |-> TRUE, removed |-> {}]

\* build_*_graph for the component c: the cells heap after it, the graph, the bundle
BuildFor(cs, c) ==
    CASE c.kind = "Synth" ->
            LET r == BuildSynthGraph(cs, DefaultOsc, DefaultFrequency, DefaultAmplitude,
                                     None, None, None, None, None, None)
            IN  [cells |-> r.cells, graph |-> r.graph, params |-> Some(r.params)]
      [] c.kind = "Heartbeat" ->
            LET r == BuildHeartbeatGraph(cs, c)
            IN  [cells |-> r.cells, graph |-> "heartbeat", params |-> Some(r.params)]
      [] c.kind = "EarRinging" ->
            LET r == BuildEarRingingGraph(cs, c)
            IN  [cells |-> r.cells, graph |-> r.graph, params |-> Some(r.params)]
      [] OTHER -> [cells |-> cs, graph |-> BuildPresetGraph(c), params |-> None]

\* the body of a build system's loop, for entity i of its Added<T> query
BuildEntity(i) ==
    /\ ents[i].alive /\ ents[i].added
    /\ LET r == BuildFor(cells, ents[i].preset[1])
       IN  /\ cells' = r.cells
           /\ ents' = [ents EXCEPT ![i].player = Some([graph |-> r.graph,
                                                        sample_rate |-> SAMPLE_RATE,
                                                        channels |-> CHANNELS]),
                                   ![i].params = r.params,
                                   ![i].added = FALSE]
    /\ UNCHANGED <<paramVars, ecsVars, assetVars, renderVars,
                   tick, delta, inst, out, heard, heart>>

\* the host removes the handle bundle of entity i
HostRemoveParams(i) ==
    /\ ents[i].alive /\ ents[i].params # None
    /\ ents' = [ents EXCEPT ![i].params = None,
                            ![i].removed = @ \cup {ParamsOf(ents[i].preset[1].kind)}]
    /\ UNCHANGED <<cells, paramVars, ecsVars, assetVars, renderVars,
                   tick, delta, inst, out, heard, heart>>

\* the host despawns entity i
HostDespawn(i) ==
    /\ ents[i].alive
    /\ ents' = [ents EXCEPT ![i].alive = FALSE,
                            ![i].removed = IF ents[i].params = None THEN @
                                           ELSE @ \cup {ParamsOf(ents[i].preset[1].kind)}]
    /\ UNCHANGED <<cells, paramVars, ecsVars, assetVars, renderVars,
                   tick, delta, inst, out, heard, heart>>

\* a cleanup that has no reader for EarRingingParams
CleanupReadersNoEar == {"SynthParams", "HeartbeatParams"}

\* the RemovedComponents readers of audio_cleanup_system
CleanupReaders == {"SynthParams", "HeartbeatParams", "EarRingingParams"}

\* audio_cleanup_system: for every entity a reader yields,
\* commands.entity(entity).remove::<AudioPlayer<ProceduralAudio>>()
audio_cleanup_system ==
    /\ \E i \in DOMAIN ents : ents[i].removed \cap CleanupReaders # {}
    /\ ents' = [i \in DOMAIN ents |->
                   IF ents[i].removed \cap CleanupReaders # {}
                   THEN [ents[i] EXCEPT !.removed = @ \ CleanupReaders,
                                        !.player = IF ents[i].alive THEN None ELSE @]
                   ELSE ents[i]]
    /\ UNCHANGED <<cells, paramVars, ecsVars, assetVars, renderVars,
                   tick, delta, inst, out, heard, heart>>

TeardownInit ==
    /\ cells = <<>>
    /\ ParamIdle
    /\ EcsIdle
    /\ RenderIdle
    /\ ents \in [1..MaxAudioEntities -> {AudioEntity(k) : k \in TeardownKinds}]
    /\ tick = 0
    /\ delta = 0
    /\ inst = None
    /\ out = None
    /\ heard = FALSE
    /\ heart = None

TeardownNext ==
    \/ \E i \in DOMAIN ents : BuildEntity(i)
    \/ \E i \in DOMAIN ents : HostRemoveParams(i)
    \/ \E i \in DOMAIN ents : HostDespawn(i)
    \/ audio_cleanup_system

SpecTeardown == TeardownInit /\ [][TeardownNext]_vars

\* C27: when SynthParams, HeartbeatParams or EarRingingParams was removed from an entity,
\* the run of audio_cleanup_system that reads the event removes the AudioPlayer from that
\* entity, and it leaves every entity without such a removal as it was
C27_Teardown ==
    [][(\E i \in DOMAIN ents : ents[i].removed # {} /\ ents'[i].removed = {}) =>
           \A i \in DOMAIN ents :
               /\ ents[i].removed # {} =>
                      /\ ents'[i].removed = {}
                      /\ ents[i].alive => ents'[i].player = None
               /\ ents[i].removed = {} => ents'[i] = ents[i]
      ]_vars

\* one entity was built, lost its bundle and then its player to the cleanup, while
\* another built entity still plays
C27_Witness ==
    /\ ents[1].alive /\ ~ents[1].added
    /\ ents[1].preset[1].kind = "EarRinging"
    /\ ents[1].params = None /\ ents[1].removed = {} /\ ents[1].player = None
    /\ ents[2].alive /\ ents[2].player # None /\ ents[2].params # None

(***************************************************************************)
(* One-shot teardown in a run of unboundedly many ticks (SpecExpire): the  *)
(* host inserts OneShotLifetime::new(d) on the entities it spawns, and     *)
(* every frame's delta is at least MinDt.  oneshot_lifetime_system is in   *)
(* the Update schedule, so it runs in every frame: weak fairness.          *)
(***************************************************************************)
MinDt == 1

\* the largest duration below which elapsed += dt increases elapsed whatever it is:
\* dt exceeds half the spacing of the numbers below MinDt * 2^MantBits
StallFree == MinDt * Pow2(MantBits)

\* durations the host gives: negative, zero, short, the largest free of stalling, and
\* one beyond it
ExpireDurations == {0 - 1, 0, MaxDuration, StallFree, StallFree + 2 * MinDt}

ExpireEntities ==
    {Entity(PresetDefault("SwordSlash"), Some(OneShotLifetimeNew(d))) : d \in ExpireDurations}

\* oneshot_lifetime_system in a run of any length: the ticks are counted up to MaxTicks,
\* and from then on the counter alternates between MaxTicks - 1 and MaxTicks, so that
\* every run of the system is a step
OneshotLifetimeRun(dt) ==
    /\ tick' = IF tick < MaxTicks THEN tick + 1 ELSE MaxTicks - 1
    /\ delta' = dt
    /\ ents' = [i \in DOMAIN ents |->
                   IF ents[i].alive /\ ents[i].life # None THEN Aged(ents[i], dt) ELSE ents[i]]
    /\ UNCHANGED <<cells, paramVars, ecsVars, assetVars, renderVars,
                   inst, out, heard, heart>>

ExpireTick == \E dt \in MinDt..MaxDt : OneshotLifetimeRun(dt)

ExpireInit ==
    /\ cells = <<>>
    /\ ParamIdle
    /\ EcsIdle
    /\ RenderIdle
    /\ ents \in [1..MaxShots -> ExpireEntities]
    /\ NoShotState

ExpireNext ==
    \/ sword_slash_build_system
    \/ ExpireTick

SpecExpire == ExpireInit /\ [][ExpireNext]_vars /\ WF_vars(ExpireTick)

\* an entity of duration <= 0 is despawned by the first run of the system
FirstTickDespawn ==
    tick >= 1 => \A i \in DOMAIN ents :
                    (ents[i].life # None /\ ents[i].life[1].duration <= 0) => ~ents[i].alive

\* C28 as stated: with every frame delta at least MinDt, every entity carrying a
\* OneShotLifetime of finite duration is eventually despawned, and one whose duration
\* is <= 0 is despawned in the first tick in which the system runs
C28_EventuallyDespawned ==
    /\ \A i \in 1..MaxShots : [](ents[i].life # None => <>(~ents[i].alive))
    /\ []FirstTickDespawn

\* C28, amended: the same for the entities whose duration is at most MinDt * 2^MantBits,
\* the range in which adding a delta of at least MinDt always increases elapsed
C28_EventuallyDespawnedShort ==
    /\ \A i \in 1..MaxShots :
           []((ents[i].life # None /\ ents[i].life[1].duration <= StallFree)
                  => <>(~ents[i].alive))
    /\ []FirstTickDespawn

\* an entity of the largest stall-free duration was despawned when its elapsed reached
\* it, and an entity of duration <= 0 was despawned with the elapsed of one tick
C28_Witness ==
    \E i, j \in DOMAIN ents :
        /\ ~ents[i].alive
        /\ ents[i].life[1].duration = StallFree
        /\ ents[i].life[1].elapsed >= StallFree
        /\ ~ents[j].alive
        /\ ents[j].life[1].duration <= 0
        /\ ents[j].life[1].elapsed = delta
        /\ tick >= 1

====
